---------------------------- MODULE Spec2Model ----------------------------
(***************************************************************************)
(* Endzone 250 simulator: the command protocol engine of src/src/lib.rs.   *)
(*                                                                         *)
(* Bytes are integers 0..255, byte buffers and strings are sequences of    *)
(* bytes.  An f32 is the record [sign, exp, man] of the three fields of    *)
(* its IEEE-754 bit pattern, and every f32 operation rounds its result to  *)
(* the nearest f32 as the hardware does.                                   *)
(* Rust arrays are 0-based; the sequences below are 1-based, so psus[k]    *)
(* here is psus[k-1] in the source.                                        *)
(*                                                                         *)
(* A u32 that can exceed 2^31 - 1 (the checksums, memory words, the        *)
(* complemented clock filters, the little-endian packed words, float bit   *)
(* patterns) is a word <<hi, lo>> of two 16-bit halves, with 32-bit        *)
(* wrapping arithmetic on the halves.  The other unsigned fields are       *)
(* bounded by the width of the text window they are parsed from and are    *)
(* plain integers.                                                         *)
(***************************************************************************)
EXTENDS Integers, Sequences, FiniteSets, TLC

(***************************************************************************)
(* Program constants                                                       *)
(***************************************************************************)
Half == 65536

MemLen == 1048576

NumPsus == 6

NumAmonTests == 100

NumFaultLogs == 10

NumPatternLoops == 8

NumOutputRouting == 16

NumSineWaves == 2

(***************************************************************************)
(* Bounds of the exploration                                               *)
(***************************************************************************)
MaxCalls == 3

MaxLongCalls == 2

(***************************************************************************)
(* Integer and bit helpers                                                 *)
(***************************************************************************)
Min2(a, b) == IF a < b THEN a ELSE b

RECURSIVE Pow(_, _)
Pow(b, e) == IF e = 0 THEN 1 ELSE b * Pow(b, e - 1)

\* the u32 n (0 <= n < 2^31) as a word
W(n) == <<n \div Half, n % Half>>

WZero == <<0, 0>>

\* u32::wrapping_add(a, b) of two words
wrapping_add(a, b) ==
    LET lo == a[2] + b[2]
    IN  <<(a[1] + b[1] + (lo \div Half)) % Half, lo % Half>>

\* a + b of two u32 given as integers overflows: the sum is 2^32 or more
add_overflows(a, b) ==
    (a \div Half) + (b \div Half) + (((a % Half) + (b % Half)) \div Half) >= Half

\* a + b of two u32 given as integers, as a build without overflow checks
\* computes it: the sum modulo 2^32
add_wrapped(a, b) ==
    (((a \div Half) + (b \div Half) + (((a % Half) + (b % Half)) \div Half)) % Half) * Half
    + (((a % Half) + (b % Half)) % Half)

\* !x on a u32 word
not_u32(x) == <<Half - 1 - x[1], Half - 1 - x[2]>>

\* x as u16 / x as u8 (truncating casts)
as_u16(x) == x % 65536

as_u8(x) == x % 256

\* u32::from_le_bytes([b0, b1, b2, b3])
from_le_bytes(b0, b1, b2, b3) == <<b2 + 256 * b3, b0 + 256 * b1>>

RECURSIVE SumSeq(_)
SumSeq(s) == IF s = << >> THEN 0 ELSE s[1] + SumSeq(Tail(s))

\* s[a..b] of a Rust slice (0-based, half open)
Slice(s, a, b) == SubSeq(s, a + 1, b)

(***************************************************************************)
(* f32 values: IEEE-754 binary32 arithmetic, round to nearest, ties to     *)
(* even, on the three fields of the bit pattern                            *)
(***************************************************************************)
Two12 == Pow(2, 12)

Two23 == Pow(2, 23)

Two24 == Pow(2, 24)

Bits(sign, exp, man) == [sign |-> sign, exp |-> exp, man |-> man]

FZero == Bits(0, 0, 0)

FOne == Bits(0, 127, 0)

FMinusOne == Bits(1, 127, 0)

\* f32::NAN, the result of an invalid operation
FNaN == Bits(0, 255, Pow(2, 22))

FInf(sign) == Bits(sign, 255, 0)

IsNaN(x) == x.exp = 255 /\ x.man # 0

IsInf(x) == x.exp = 255 /\ x.man = 0

IsZero(x) == x.exp = 0 /\ x.man = 0

\* f32::from_bits of a word <<hi, lo>>: sign bit, 8 exponent bits, 23
\* mantissa bits
from_bits(b) == Bits(b[1] \div 32768, (b[1] % 32768) \div 128, (b[1] % 128) * Half + b[2])

\* the element of a set of one element.  In Only({e : v \in {x}}), which is
\* e for v = x, x is computed once
Only(S) == CHOOSE r \in S : TRUE

\* m * 2^e for m > 0 as <<m', e'>> with 2^23 <= m' < 2^24
RECURSIVE Normal(_, _)
Normal(m, e) ==
    IF m >= Two23 THEN <<m, e>>
    ELSE IF m < Two12 THEN Normal(m * Two12, e - 12)
    ELSE Normal(2 * m, e - 1)

\* a finite non-zero x as <<m, e>>: |x| = m * 2^e, 2^23 <= m < 2^24
Unpack(x) == IF x.exp = 0 THEN Normal(x.man, -149) ELSE <<Two23 + x.man, x.exp - 150>>

\* where the discarded part r (+ something more) of a value lies against
\* the half h of the last kept unit: 0 nothing discarded, 1 below the half,
\* 2 the half, 3 above it
Part(r, h, more) ==
    IF r > h \/ (r = h /\ more) THEN 3
    ELSE IF r = h THEN 2
    ELSE IF r > 0 \/ more THEN 1
    ELSE 0

\* round to nearest, ties to even
RoundUp(q, part) == part = 3 \/ (part = 2 /\ q % 2 = 1)

Rounded(q, part) == IF RoundUp(q, part) THEN q + 1 ELSE q

\* the bit pattern with sign, exponent and mantissa packed in q
FromPacked(sign, q) == Bits(sign, q \div Two23, q % Two23)

\* the f32 nearest to (m + discarded part) * 2^e, 2^23 <= m < 2^24:
\* infinite above f32::MAX, subnormal or zero below 2^-126
Nearest(sign, m, e, part) ==
    IF e + 150 >= 255 THEN FInf(sign)
    ELSE IF e + 150 >= 1
    THEN Only({FromPacked(sign, q) : q \in {Rounded((e + 149) * Two23 + m, part)}})
    ELSE IF -149 - e >= 25 THEN Bits(sign, 0, 0)
    ELSE Only({Only({FromPacked(sign, q) :
                     q \in {Rounded(m \div p, Part(m % p, p \div 2, part # 0))}}) :
               p \in {Pow(2, -149 - e)}})

Pack(sign, m, e, part) ==
    Only({Nearest(sign, vm, ve, vp) : vm \in {m}, ve \in {e}, vp \in {part}})

\* n as f32 for an integer n >= 2^24: the low bits are rounded away
RECURSIVE Shrink(_, _, _)
Shrink(n, e, part) ==
    IF n < Two24 THEN Pack(0, n, e, part)
    ELSE Only({Shrink(n \div 2, e + 1, p) : p \in {Part(n % 2, 1, part # 0)}})

\* x as f32 for an unsigned integer x
as_f32(x) ==
    IF x = 0 THEN FZero
    ELSE IF x < Two24 THEN Only({Pack(0, u[1], u[2], 0) : u \in {Normal(x, 0)}})
    ELSE Shrink(x, 0, 0)

\* -x
FNeg(x) == [x EXCEPT !.sign = 1 - @]

\* x.abs()
FAbs(x) == [x EXCEPT !.sign = 0]

\* the 48-bit product hi * 2^24 + lo of two mantissas, rounded to 24 bits
ProductRounded(sign, hi, lo, e) ==
    IF hi >= Two23
    THEN Pack(sign, hi, e + 24, Part(lo, Two23, FALSE))
    ELSE Pack(sign, 2 * hi + (lo \div Two23), e + 23, Part(lo % Two23, Two23 \div 2, FALSE))

\* the product of two finite non-zero values <<m, e>>, by 12-bit halves of
\* the mantissas
Product(sign, ua, ub) ==
    LET a1 == ua[1] \div Two12
        a0 == ua[1] % Two12
        b1 == ub[1] \div Two12
        b0 == ub[1] % Two12
    IN  Only({Only({ProductRounded(sign,
                                   a1 * b1 + (cross \div Two12) + (low \div Two24),
                                   low % Two24, ua[2] + ub[2]) :
                    low \in {(cross % Two12) * Two12 + a0 * b0}}) :
              cross \in {a1 * b0 + a0 * b1}})

Times(a, b) ==
    LET sign == (a.sign + b.sign) % 2
    IN  IF IsNaN(a) \/ IsNaN(b) THEN FNaN
        ELSE IF IsInf(a) \/ IsInf(b)
        THEN IF IsZero(a) \/ IsZero(b) THEN FNaN ELSE FInf(sign)
        ELSE IF IsZero(a) \/ IsZero(b) THEN Bits(sign, 0, 0)
        ELSE Only({Product(sign, ua, ub) : ua \in {Unpack(a)}, ub \in {Unpack(b)}})

\* a * b
FMul(a, b) == Only({Times(x, y) : x \in {a}, y \in {b}})

\* n quotient bits of rem / d by long division: <<quotient, remainder>>
RECURSIVE DivBits(_, _, _, _)
DivBits(rem, d, n, acc) ==
    IF n = 0 THEN <<acc, rem>>
    ELSE Only({DivBits(r, d, k, q) :
               r \in {IF rem >= d THEN 2 * (rem - d) ELSE 2 * rem},
               k \in {n - 1},
               q \in {IF rem >= d THEN 2 * acc + 1 ELSE 2 * acc}})

\* the quotient of two finite non-zero values <<m, e>>
Quotient(sign, ua, ub) ==
    LET less == ua[1] < ub[1]
        e == ua[2] - ub[2] - 23 - (IF less THEN 1 ELSE 0)
    IN  Only({Pack(sign, qr[1] \div 2, e, 2 * (qr[1] % 2) + (IF qr[2] # 0 THEN 1 ELSE 0)) :
              qr \in {DivBits(IF less THEN 2 * ua[1] ELSE ua[1], ub[1], 25, 0)}})

Over(a, b) ==
    LET sign == (a.sign + b.sign) % 2
    IN  IF IsNaN(a) \/ IsNaN(b) THEN FNaN
        ELSE IF IsInf(a) THEN IF IsInf(b) THEN FNaN ELSE FInf(sign)
        ELSE IF IsInf(b) THEN Bits(sign, 0, 0)
        ELSE IF IsZero(b) THEN IF IsZero(a) THEN FNaN ELSE FInf(sign)
        ELSE IF IsZero(a) THEN Bits(sign, 0, 0)
        ELSE Only({Quotient(sign, ua, ub) : ua \in {Unpack(a)}, ub \in {Unpack(b)}})

\* a / b
FDiv(a, b) == Only({Over(x, y) : x \in {a}, y \in {b}})

\* x shifted right by d bits, the last bit set when a set bit was shifted out
ShiftSticky(x, d) ==
    IF d >= 27 THEN 1
    ELSE Only({IF x % p # 0 /\ (x \div p) % 2 = 0 THEN (x \div p) + 1 ELSE x \div p :
               p \in {Pow(2, d)}})

\* x * 2^e for 0 < x < 2^27 as <<x', e'>> with 2^26 <= x' < 2^27
RECURSIVE Widen(_, _)
Widen(x, e) ==
    IF x >= 8 * Two23 THEN <<x, e>>
    ELSE Only({Widen(x2, e1) : x2 \in {2 * x}, e1 \in {e - 1}})

\* x + y or x - y > 0 at exponent e, rounded: x and y are mantissas
\* extended by guard, round and sticky bit
TotalRounded(sign, x, y, e, same) ==
    IF same
    THEN IF x + y >= 16 * Two23
         THEN Pack(sign, (x + y) \div 16, e + 1, Part((x + y) % 16, 8, FALSE))
         ELSE Pack(sign, (x + y) \div 8, e, Part((x + y) % 8, 4, FALSE))
    ELSE IF x = y THEN FZero
    ELSE Only({Pack(sign, w[1] \div 8, w[2], Part(w[1] % 8, 4, FALSE)) :
               w \in {Widen(x - y, e)}})

\* the sum of big = <<m, e>> with sign sign and the smaller small = <<m, e>>,
\* of the same sign or not
Total(sign, big, small, same) ==
    Only({TotalRounded(sign, x, y, big[2], same) :
          x \in {8 * big[1]}, y \in {ShiftSticky(8 * small[1], big[2] - small[2])}})

\* the sum of two finite non-zero values <<m, e>> with signs sa and sb
Ordered(sa, ua, sb, ub) ==
    IF ua[2] > ub[2] \/ (ua[2] = ub[2] /\ ua[1] >= ub[1])
    THEN Total(sa, ua, ub, sa = sb)
    ELSE Total(sb, ub, ua, sa = sb)

Plus(a, b) ==
    IF IsNaN(a) \/ IsNaN(b) THEN FNaN
    ELSE IF IsInf(a) THEN IF IsInf(b) /\ a.sign # b.sign THEN FNaN ELSE a
    ELSE IF IsInf(b) THEN b
    ELSE IF IsZero(a)
    THEN IF IsZero(b) THEN Bits(IF a.sign = 1 /\ b.sign = 1 THEN 1 ELSE 0, 0, 0) ELSE b
    ELSE IF IsZero(b) THEN a
    ELSE Only({Ordered(a.sign, ua, b.sign, ub) : ua \in {Unpack(a)}, ub \in {Unpack(b)}})

\* a + b
FAdd(a, b) == Only({Plus(x, y) : x \in {a}, y \in {b}})

\* a - b
FSub(a, b) == FAdd(a, FNeg(b))

\* the order of the bit patterns of finite and infinite values
Key(x) == (IF x.sign = 1 THEN -1 ELSE 1) * (x.exp * Two23 + x.man)

\* a < b: false when an operand is NaN
FLess(a, b) == Only({~IsNaN(x) /\ ~IsNaN(y) /\ Key(x) < Key(y) : x \in {a}, y \in {b}})

\* the literal num/den (sign 1) or -num/den (sign -1) as f32
F(sign, num, den) ==
    LET q == FDiv(as_f32(num), as_f32(den))
    IN  IF sign = -1 THEN FNeg(q) ELSE q

\* x as f32 / divisor   (x an unsigned integer, the divisor the literal dn/dd)
as_f32_div(x, dn, dd) == FDiv(as_f32(x), F(1, dn, dd))

(***************************************************************************)
(* Text helpers: UTF-8, radix parsing, decimal formatting                  *)
(***************************************************************************)
IsCont(b) == b >= 128 /\ b <= 191

\* std::str::from_utf8(bytes).is_ok(), scanning from position i (1-based)
RECURSIVE Utf8From(_, _)
Utf8From(b, i) ==
    IF i > Len(b) THEN TRUE
    ELSE LET c == b[i]
             has(k) == i + k <= Len(b)
             cont(k) == IsCont(b[i + k])
         IN  IF c < 128 THEN Utf8From(b, i + 1)
             ELSE IF c >= 194 /\ c <= 223
                  THEN has(1) /\ cont(1) /\ Utf8From(b, i + 2)
             ELSE IF c >= 224 /\ c <= 239
                  THEN /\ has(2)
                       /\ cont(1) /\ cont(2)
                       /\ (c = 224 => b[i + 1] >= 160)
                       /\ (c = 237 => b[i + 1] <= 159)
                       /\ Utf8From(b, i + 3)
             ELSE IF c >= 240 /\ c <= 244
                  THEN /\ has(3)
                       /\ cont(1) /\ cont(2) /\ cont(3)
                       /\ (c = 240 => b[i + 1] >= 144)
                       /\ (c = 244 => b[i + 1] <= 143)
                       /\ Utf8From(b, i + 4)
             ELSE FALSE

from_utf8_ok(b) == Utf8From(b, 1)

\* str::is_char_boundary(i) for a 0-based byte index i of a valid string
is_char_boundary(c, i) == i = 0 \/ i = Len(c) \/ (i < Len(c) /\ ~IsCont(c[i + 1]))

\* char::to_digit(radix): the digit value of a byte, -1 when it is no digit
to_digit(b, radix) ==
    LET v == IF b >= 48 /\ b <= 57 THEN b - 48
             ELSE IF b >= 97 /\ b <= 122 THEN b - 97 + 10
             ELSE IF b >= 65 /\ b <= 90 THEN b - 65 + 10
             ELSE -1
    IN  IF v >= 0 /\ v < radix THEN v ELSE -1

RECURSIVE DigitsValue(_, _, _)
DigitsValue(s, radix, acc) ==
    IF s = << >> THEN acc
    ELSE IF to_digit(s[1], radix) < 0 THEN -1
    ELSE DigitsValue(Tail(s), radix, acc * radix + to_digit(s[1], radix))

\* uN::from_str_radix(s, radix): the value, or -1 for a ParseIntError.
\* An optional leading '+' is accepted; the windows of this program are too
\* short to overflow.
from_str_radix(s, radix) ==
    IF s = << >> THEN -1
    ELSE IF s[1] = 43
         THEN IF Len(s) = 1 THEN -1 ELSE DigitsValue(Tail(s), radix, 0)
         ELSE DigitsValue(s, radix, 0)

\* &content[a..b] is a panic unless both ends are char boundaries
slice_ok(c, a, b) == is_char_boundary(c, a) /\ is_char_boundary(c, b)

\* the closure parse_hex(start, end) of the data handlers:
\* the value, -1 for Err(InvalidParameter), -2 for a slicing panic
parse_hex(c, a, b) ==
    IF ~slice_ok(c, a, b) THEN -2 ELSE from_str_radix(Slice(c, a, b), 16)

\* char::is_whitespace for the one-byte characters
IsSpace(b) == b \in {9, 10, 11, 12, 13, 32}

\* char::is_whitespace for the two-byte characters U+0085 and U+00A0
IsSpace2(b1, b2) == b1 = 194 /\ b2 \in {133, 160}

\* char::is_whitespace for the three-byte characters U+1680, U+2000 to
\* U+200A, U+2028, U+2029, U+202F, U+205F and U+3000
IsSpace3(b1, b2, b3) ==
    \/ b1 = 225 /\ b2 = 154 /\ b3 = 128
    \/ b1 = 226 /\ b2 = 128 /\ (b3 \in 128..138 \/ b3 \in {168, 169, 175})
    \/ b1 = 226 /\ b2 = 129 /\ b3 = 159
    \/ b1 = 227 /\ b2 = 128 /\ b3 = 128

\* str::trim_start
RECURSIVE TrimStart(_)
TrimStart(s) ==
    IF s = << >> THEN s
    ELSE IF IsSpace(s[1]) THEN TrimStart(Tail(s))
    ELSE IF Len(s) >= 2 /\ IsSpace2(s[1], s[2]) THEN TrimStart(SubSeq(s, 3, Len(s)))
    ELSE IF Len(s) >= 3 /\ IsSpace3(s[1], s[2], s[3]) THEN TrimStart(SubSeq(s, 4, Len(s)))
    ELSE s

\* str::trim_end
RECURSIVE TrimEnd(_)
TrimEnd(s) ==
    IF s = << >> THEN s
    ELSE IF IsSpace(s[Len(s)]) THEN TrimEnd(SubSeq(s, 1, Len(s) - 1))
    ELSE IF Len(s) >= 2 /\ IsSpace2(s[Len(s) - 1], s[Len(s)])
         THEN TrimEnd(SubSeq(s, 1, Len(s) - 2))
    ELSE IF Len(s) >= 3 /\ IsSpace3(s[Len(s) - 2], s[Len(s) - 1], s[Len(s)])
         THEN TrimEnd(SubSeq(s, 1, Len(s) - 3))
    ELSE s

\* content[a..b].trim().parse::<u32>(): value, -1 for Err, -2 for a panic
parse_dec(c, a, b) ==
    IF ~slice_ok(c, a, b) THEN -2
    ELSE from_str_radix(TrimEnd(TrimStart(Slice(c, a, b))), 10)

\* u32::from_str_radix(&content[a..b], 16) of an 8 character window, as a
\* word; only used where parse_hex(c, a, b) did not fail
RECURSIVE HexDigitsWord(_, _)
HexDigitsWord(s, acc) ==
    IF s = << >> THEN acc
    ELSE HexDigitsWord(Tail(s),
            <<(acc[1] * 16 + (acc[2] \div 4096)) % Half, (acc[2] % 4096) * 16 + to_digit(s[1], 16)>>)

parse_hex_word(c, a, b) ==
    LET t == Slice(c, a, b)
    IN  HexDigitsWord(IF t[1] = 43 THEN Tail(t) ELSE t, WZero)

\* the error of parse_hex on a window too wide for a plain integer:
\* 0 for Ok, -1 for Err(InvalidParameter), -2 for a slicing panic
parse_hex_status(c, a, b) ==
    IF ~slice_ok(c, a, b) THEN -2
    ELSE LET t == Slice(c, a, b)
             digits == IF t # << >> /\ t[1] = 43 THEN Tail(t) ELSE t
         IN  IF digits = << >> \/ \E k \in 1..Len(digits) : to_digit(digits[k], 16) < 0
             THEN -1 ELSE 0

\* format!("{}", w) for a u32 word
RECURSIVE WToDec(_)
WToDec(w) ==
    LET qh == w[1] \div 10
        rest == (w[1] % 10) * Half + w[2]
        q == <<qh + ((rest \div 10) \div Half), (rest \div 10) % Half>>
    IN  IF w[1] = 0 /\ w[2] < 10 THEN <<48 + w[2]>>
        ELSE WToDec(q) \o <<48 + (rest % 10)>>

\* format!("{}", n) for an unsigned integer
RECURSIVE ToDec(_)
ToDec(n) == IF n < 10 THEN <<48 + n>> ELSE ToDec(n \div 10) \o <<48 + (n % 10)>>

HexDigit(v) == IF v < 10 THEN 48 + v ELSE 55 + v

\* format!("{:X}", n)
RECURSIVE ToHex(_)
ToHex(n) == IF n < 16 THEN <<HexDigit(n)>> ELSE ToHex(n \div 16) \o <<HexDigit(n % 16)>>

RECURSIVE ZeroPad(_, _)
ZeroPad(s, w) == IF Len(s) >= w THEN s ELSE ZeroPad(<<48>> \o s, w)

\* "#OK#", "#ON#", "#OFF#"
StrOK == <<35, 79, 75, 35>>

StrON == <<35, 79, 78, 35>>

StrOFF == <<35, 79, 70, 70, 35>>

(***************************************************************************)
(* Records of the state container                                          *)
(***************************************************************************)
PsuDefault ==
    [enabled |-> TRUE, voltage_setpoint |-> FZero, current_limit |-> FZero,
     measured_voltage |-> FZero, measured_current |-> FZero,
     voltage_set_s1 |-> 0, voltage_set_s2 |-> 0, voltage_set_s3 |-> 0, voltage_set_s4 |-> 0,
     high_voltage_limit |-> FOne, low_voltage_limit |-> FMinusOne,
     current_monitor_limit |-> FOne, i_cal_val |-> FOne, i_cal_offset_val |-> FZero,
     pos_neg_i |-> 0, v_cal_offset_val |-> FZero, pos_neg_v |-> 0,
     sequence_id |-> 0, sequence_delay |-> 0, ustep_steps |-> 0, ustep_delay |-> 0,
     psu_cal_val |-> FOne]

\* a pattern/tristate memory bank: Vec<u32> of MemLen words, kept as the
\* function from the indices of its non-zero words to those words
EmptyMem == [i \in {} |-> WZero]

MemRead(m, i) == IF i \in DOMAIN m THEN m[i] ELSE WZero

MemWrite(m, i, v) ==
    IF v = WZero THEN [j \in (DOMAIN m) \ {i} |-> m[j]]
    ELSE [j \in (DOMAIN m) \cup {i} |-> IF j = i THEN v ELSE m[j]]

FpgaDefault ==
    [present |-> FALSE, position |-> 0, version |-> 0,
     mem_a_test_ok |-> TRUE, mem_b_test_ok |-> TRUE,
     ctrl_a_test_ok |-> TRUE, ctrl_b_test_ok |-> TRUE,
     pattern_memory_a |-> EmptyMem, pattern_memory_b |-> EmptyMem,
     tristate_memory_a |-> EmptyMem, tristate_memory_b |-> EmptyMem]

ClockGeneratorDefault ==
    [present |-> FALSE, enabled |-> FALSE, frequency |-> 0, module_type |-> 0,
     fpga_version |-> 0, has_failure |-> FALSE]

SineWaveDefault ==
    [present |-> FALSE, enabled |-> FALSE, amplitude |-> 0, offset |-> 0,
     frequency_base |-> 0, duty_cycle |-> 0, reset_value |-> 0, module_type |-> 0,
     fpga_version |-> 0, programmed |-> FALSE, has_failure |-> FALSE, rms_value |-> FZero]

SystemConfigDefault ==
    [auto_reset |-> FALSE, auto_reset_retries |-> 0, auto_reset_counter |-> 0,
     stop_on_v_error |-> FALSE, stop_on_i_error |-> FALSE, stop_on_clk_error |-> FALSE,
     psu_sequence_enabled |-> FALSE, stop_on_temp_error |-> FALSE,
     psu_step_enabled |-> FALSE, psu_step_delay |-> 0, power_up_delay |-> 0,
     set_point_enabled |-> FALSE, clocks_required |-> FALSE,
     clocks_restart_required |-> FALSE, clocks_restart_time |-> 0,
     clk32_mon_filter |-> WZero, clk64_mon_filter |-> WZero, ignore_clock_fails |-> FALSE,
     seq_on_delay_1 |-> 0, seq_off_delay_1 |-> 0, seq_on_delay_2 |-> 0,
     seq_off_delay_2 |-> 0, seq_on_delay_3 |-> 0, seq_off_delay_3 |-> 0,
     sigs_mod_sequence_on |-> 0, sigs_mod_sequence_off |-> 0]

PtcConfigDefault == [enabled |-> FALSE, on_time_seconds |-> 0, off_time_seconds |-> 0]

AmonTestDefault ==
    [test_type |-> 0, tp1_mux_ch |-> 0, tp1_amon_mux_a |-> 0, tp1_amon_mux_b |-> 0,
     tp2_mux_ch |-> 0, tp2_amon_mux_a |-> 0, tp2_amon_mux_b |-> 0, psu_link |-> 0,
     tp1_gain |-> FZero, tp2_gain |-> FZero, sum_gain |-> FZero,
     tp1_peak_detect |-> 0, tp2_peak_detect |-> 0, tp1_samples |-> 0, tp2_samples |-> 0,
     board |-> 0, tp1_discharge |-> 0, tp2_discharge |-> 0, tag |-> 0,
     tp1_common_mux |-> 0, tp2_common_mux |-> 0,
     tp1_discharge_time |-> 0, tp2_discharge_time |-> 0, unit_type |-> 0,
     cal_gain |-> FZero, cal_offset |-> FZero, high_limit |-> FZero, low_limit |-> FZero]

\* the array of NumAmonTests AmonTest, kept as the function from the indices
\* (1-based) of the tests that differ from AmonTest::default() to those tests
NoAmonTests == [i \in {} |-> AmonTestDefault]

AmonGet(tests, i) == IF i \in DOMAIN tests THEN tests[i] ELSE AmonTestDefault

AmonPut(tests, i, t) ==
    IF t = AmonTestDefault THEN [j \in (DOMAIN tests) \ {i} |-> tests[j]]
    ELSE [j \in (DOMAIN tests) \cup {i} |-> IF j = i THEN t ELSE tests[j]]

PatternLoopDefault == [start_address |-> 0, end_address |-> 0, count |-> 0]

MainClockConfigDefault ==
    [freq_low_byte |-> 0, freq_high_byte |-> 0, period_low_byte |-> 0,
     period_high_byte |-> 0, source |-> 0]

FrcConfigDefault ==
    [frequency_1_4 |-> WZero, frequency_5_8 |-> WZero, period_1_4 |-> WZero,
     period_5_8 |-> WZero, source_1_4 |-> WZero, source_5_8 |-> WZero]

FaultLogDefault ==
    [monitor_voltages |-> [i \in 1..6 |-> FZero], monitor_currents |-> [i \in 1..6 |-> FZero],
     auto_reset_counter |-> 0, over_current_flags |-> 0, under_voltage_flags |-> 0,
     over_voltage_flags |-> 0, clock_status_1_16 |-> 0, clock_status_17_32 |-> 0,
     clock_status_33_48 |-> 0, clock_status_49_64 |-> 0, sw_fault_status |-> 0,
     sw1_rms |-> FZero, sw2_rms |-> FZero, driver_on |-> FALSE,
     timer_values |-> [i \in 1..4 |-> 0], alarm_values |-> [i \in 1..4 |-> 0]]

\* Simulator::new(rs485_address)
new(rs485_address) ==
    [rs485_address |-> rs485_address,
     fw_version |-> F(1, 146, 100),
     sequence_on |-> FALSE,
     prog_id_hint |-> 0,
     prog_id_lint |-> 0,
     temp_ok |-> FALSE,
     psus |-> [i \in 1..NumPsus |-> PsuDefault],
     psu_data_codes |-> [i \in 1..6 |-> 0],
     fpgas |-> [i \in 1..2 |-> FpgaDefault],
     clock_generators |-> [i \in 1..4 |-> ClockGeneratorDefault],
     sine_waves |-> [i \in 1..NumSineWaves |-> SineWaveDefault],
     amon_present |-> FALSE,
     amon_type |-> 255,
     amon_bp |-> 0,
     timer_values |-> [i \in 1..4 |-> 0],
     alarm_values |-> [i \in 1..4 |-> 0],
     system_config |-> SystemConfigDefault,
     ptc_config |-> PtcConfigDefault,
     amon_tests |-> NoAmonTests,
     amon_test_count |-> 0,
     ustep_enabled |-> FALSE,
     pattern_loops |-> [i \in 1..NumPatternLoops |-> PatternLoopDefault],
     main_clock_config |-> MainClockConfigDefault,
     loop_enables |-> 0,
     repeat_count_1 |-> WZero,
     repeat_count_2 |-> WZero,
     frc_config |-> FrcConfigDefault,
     output_routing |-> [i \in 1..NumOutputRouting |-> WZero],
     back_panel_address |-> 0,
     bib_code |-> 0,
     bp_res1_present |-> TRUE,
     bp_res2_present |-> TRUE,
     door_open |-> FALSE,
     fault_logs |-> [i \in 1..NumFaultLogs |-> FaultLogDefault],
     sram_address |-> 1,
     pattern_data_checksum |-> WZero,
     driver_data_checksum |-> WZero,
     is_pattern_data_loading |-> FALSE,
     is_driver_data_loading |-> FALSE,
     log_buffer |-> << >>]

(***************************************************************************)
(* Checksum helpers.  A log line                                           *)
(*   "[DEBUG] <Driver|Pattern> checksum updated by N, new value: M"        *)
(* is kept as the record [kind, by, value] of what it prints.              *)
(***************************************************************************)
update_driver_checksum(s, value_to_add) ==
    LET c == wrapping_add(s.driver_data_checksum, W(value_to_add))
    IN  [s EXCEPT !.driver_data_checksum = c,
                  !.log_buffer = Append(@, [kind |-> "Driver", by |-> value_to_add, value |-> c])]

update_pattern_checksum(s, value_to_add) ==
    LET c == wrapping_add(s.pattern_data_checksum, W(value_to_add))
    IN  [s EXCEPT !.pattern_data_checksum = c,
                  !.log_buffer = Append(@, [kind |-> "Pattern", by |-> value_to_add, value |-> c])]

\* self.amon_tests[i - 1] and the store of a test into it
AmonTestAt(s, i) == AmonGet(s.amon_tests, i)

SetAmonTest(s, i, t) == [s EXCEPT !.amon_tests = AmonPut(@, i, t)]

(***************************************************************************)
(* Outcome of a data handler: Result<(), CommandError>, or a panic.        *)
(* err is "" for Ok(()), else "TooShort", "InvalidParameter" or "Panic".   *)
(***************************************************************************)
HOk(s) == [sim |-> s, err |-> ""]

HErr(s, e) == [sim |-> s, err |-> e]

\* the error of the first failing parse of a list of parsed windows, "" if none
RECURSIVE FirstBad(_)
FirstBad(vals) ==
    IF vals = << >> THEN ""
    ELSE IF vals[1] = -1 THEN "InvalidParameter"
    ELSE IF vals[1] = -2 THEN "Panic"
    ELSE FirstBad(Tail(vals))

\* parse the windows wins (pairs <<start, end>>) of content in order
ParseAll(c, wins) == [k \in 1..Len(wins) |-> parse_hex(c, wins[k][1], wins[k][2])]

\* from_utf8, the length check and the `?` of every parse_hex of a handler
\* whose windows are all parsed before any state is touched
Prologue(c, min_len, wins) ==
    IF ~from_utf8_ok(c) THEN "InvalidParameter"
    ELSE IF Len(c) < min_len THEN "TooShort"
    ELSE FirstBad(ParseAll(c, wins))

(***************************************************************************)
(* Driver-load data handlers                                               *)
(***************************************************************************)
VWins == <<<<3, 5>>, <<5, 7>>, <<7, 10>>, <<10, 13>>, <<13, 16>>, <<16, 19>>>>

VChecksum(v) == v[6] + v[5] + v[4] + v[3] + v[2] + v[1]

\* Fault variant of handle_v_parsed: an ordinal above the array is clamped to
\* its last record.
handle_v_parsed_clamping(s, c, e, v) ==
    LET sram6_psu_num == IF v[1] > NumPsus THEN NumPsus ELSE v[1]
        s1 == IF sram6_psu_num > 0
              THEN [s EXCEPT !.psus[sram6_psu_num].voltage_set_s1 = as_u16(v[6]),
                             !.psus[sram6_psu_num].voltage_set_s2 = as_u16(v[5]),
                             !.psus[sram6_psu_num].voltage_set_s3 = as_u16(v[4]),
                             !.psus[sram6_psu_num].voltage_set_s4 = as_u16(v[3])]
              ELSE s
    IN  IF e # "" THEN HErr(s, e)
        ELSE HOk(update_driver_checksum(s1, VChecksum(v)))

handle_v_parsed(s, c, e, v) ==
    LET sram6_psu_num == v[1]
        s1 == IF sram6_psu_num > 0 /\ sram6_psu_num <= NumPsus
              THEN [s EXCEPT !.psus[sram6_psu_num].voltage_set_s1 = as_u16(v[6]),
                             !.psus[sram6_psu_num].voltage_set_s2 = as_u16(v[5]),
                             !.psus[sram6_psu_num].voltage_set_s3 = as_u16(v[4]),
                             !.psus[sram6_psu_num].voltage_set_s4 = as_u16(v[3])]
              ELSE s
    IN  IF e # "" THEN HErr(s, e)
        ELSE HOk(update_driver_checksum(s1, VChecksum(v)))

handle_v_command(s, c) == handle_v_parsed(s, c, Prologue(c, 19, VWins), ParseAll(c, VWins))

QWins == <<<<3, 5>>, <<5, 8>>, <<8, 9>>, <<9, 13>>, <<13, 16>>, <<16, 19>>, <<19, 20>>, <<20, 21>>>>

\* Fault variant of QChecksum: the two multiplier digits are counted too.
QChecksumAll(v) == v[8] + v[7] + v[6] + v[5] + v[4] + as_u8(v[3]) + v[2] + v[1]

QChecksum(v) == v[6] + v[5] + v[4] + as_u8(v[3]) + v[2] + v[1]

handle_q_parsed(s, c, e, v) ==
    LET sram6_psu_num == v[1]
        sram5_delay == v[2]
        sram4_seq_id == as_u8(v[3])
        sram3_cal_v == v[4]
        sram2_low_v == v[5]
        sram1_high_v == v[6]
        sram7_vread_gain_mult == v[7]
        sram8_vmon_mult == v[8]
        vmon_divisor == IF sram8_vmon_mult = 1 THEN 1 ELSE 10
        cal_v_divisor == IF sram7_vread_gain_mult = 2 THEN 500
                         ELSE IF sram7_vread_gain_mult = 1 THEN 1000 ELSE 10000
        s1 == IF sram6_psu_num > 0 /\ sram6_psu_num <= NumPsus
              THEN [s EXCEPT !.psus[sram6_psu_num].sequence_id = sram4_seq_id,
                             !.psus[sram6_psu_num].sequence_delay = sram5_delay,
                             !.psus[sram6_psu_num].high_voltage_limit = as_f32_div(sram1_high_v, vmon_divisor, 1),
                             !.psus[sram6_psu_num].low_voltage_limit = as_f32_div(sram2_low_v, vmon_divisor, 1),
                             !.psus[sram6_psu_num].psu_cal_val = as_f32_div(sram3_cal_v, cal_v_divisor, 1)]
              ELSE s
    IN  IF e # "" THEN HErr(s, e)
        ELSE HOk(update_driver_checksum(s1, QChecksum(v)))

handle_q_command(s, c) == handle_q_parsed(s, c, Prologue(c, 21, QWins), ParseAll(c, QWins))

MWins == <<<<3, 5>>, <<5, 8>>, <<8, 9>>, <<9, 13>>, <<13, 16>>, <<16, 19>>>>

MChecksum(v) == v[6] + v[5] + v[4] + v[3] + v[2] + v[1]

handle_m_parsed(s, c, e, v) ==
    LET sram6_psu_num == v[1]
        sram5_steps == v[2]
        sram4_enable == v[3]
        sram3_delay == v[4]
        s0 == [s EXCEPT !.ustep_enabled = (sram4_enable = 1)]
        s1 == IF sram6_psu_num > 0 /\ sram6_psu_num <= NumPsus
              THEN [s0 EXCEPT !.psus[sram6_psu_num].ustep_steps = sram5_steps,
                              !.psus[sram6_psu_num].ustep_delay = sram3_delay]
              ELSE s0
    IN  IF e # "" THEN HErr(s, e)
        ELSE HOk(update_driver_checksum(s1, MChecksum(v)))

handle_m_command(s, c) == handle_m_parsed(s, c, Prologue(c, 20, MWins), ParseAll(c, MWins))

ZWins == <<<<3, 5>>, <<5, 9>>, <<9, 13>>, <<13, 15>>>>

ZChecksum(v) == v[1] + v[2] + v[3] + v[4]

handle_z_parsed(s, c, e, v) ==
    LET sram1_enabled == v[1]
        sram2_on_time == v[2]
        sram3_off_time == v[3]
        sram4_unit_type == v[4]
        s1 == [s EXCEPT !.ptc_config.enabled = (sram1_enabled = 1),
                        !.ptc_config.on_time_seconds =
                            IF sram4_unit_type = 1 THEN sram2_on_time ELSE sram2_on_time * 60,
                        !.ptc_config.off_time_seconds =
                            IF sram4_unit_type = 1 THEN sram3_off_time ELSE sram3_off_time * 60]
    IN  IF e # "" THEN HErr(s, e)
        ELSE HOk(update_driver_checksum(s1, ZChecksum(v)))

handle_z_command(s, c) == handle_z_parsed(s, c, Prologue(c, 15, ZWins), ParseAll(c, ZWins))

WWins == <<<<3, 5>>, <<5, 7>>, <<7, 9>>, <<9, 11>>, <<11, 13>>, <<13, 15>>, <<15, 17>>, <<17, 19>>, <<19, 21>>>>

WChecksum(v) == v[8] + v[7] + v[6] + v[5] + v[4] + v[3] + v[2] + v[1] + v[9]

handle_w_parsed(s, c, e, v) ==
    LET sram8_test_num == v[1]
        s1 == IF sram8_test_num > 0 /\ sram8_test_num <= NumAmonTests
              THEN SetAmonTest(s, sram8_test_num,
                       [AmonTestAt(s, sram8_test_num) EXCEPT !.test_type = v[2],
                           !.tp1_mux_ch = v[3],
                           !.tp1_amon_mux_a = v[4],
                           !.tp1_amon_mux_b = v[5],
                           !.tp2_mux_ch = v[6],
                           !.tp2_amon_mux_a = v[7],
                           !.tp2_amon_mux_b = v[8],
                           !.psu_link = v[9]])
              ELSE s
    IN  IF e # "" THEN HErr(s, e)
        ELSE HOk(update_driver_checksum(s1, WChecksum(v)))

handle_w_command(s, c) == handle_w_parsed(s, c, Prologue(c, 21, WWins), ParseAll(c, WWins))

\* parse order of the source: test_num, test_count, sum_gain, tp2_gain, tp1_gain
UWins == <<<<3, 5>>, <<17, 19>>, <<13, 17>>, <<9, 13>>, <<5, 9>>>>

UChecksum(v) == v[5] + v[4] + v[3] + v[2] + v[1]

handle_u_parsed(s, c, e, v) ==
    LET sram8_test_num == v[1]
        sram4_test_count == v[2]
        sram3_sum_gain == v[3]
        sram2_tp2_gain == v[4]
        sram1_tp1_gain == v[5]
        s0 == [s EXCEPT !.amon_test_count = sram4_test_count]
        s1 == IF sram8_test_num > 0 /\ sram8_test_num <= NumAmonTests
              THEN SetAmonTest(s0, sram8_test_num,
                       [AmonTestAt(s0, sram8_test_num) EXCEPT !.tp1_gain = as_f32_div(sram1_tp1_gain, 1000, 1),
                           !.tp2_gain = as_f32_div(sram2_tp2_gain, 1000, 1),
                           !.sum_gain = as_f32_div(sram3_sum_gain, 1000, 1)])
              ELSE s0
    IN  IF e # "" THEN HErr(s, e)
        ELSE HOk(update_driver_checksum(s1, UChecksum(v)))

handle_u_command(s, c) == handle_u_parsed(s, c, Prologue(c, 19, UWins), ParseAll(c, UWins))

BHeadWins == <<<<3, 4>>, <<4, 6>>>>

BDataWins == <<<<8, 10>>, <<10, 12>>, <<12, 14>>, <<14, 16>>, <<16, 18>>>>

\* Fault variant of handle_b_parsed: type 3 stores its last value in board.
handle_b_parsed_shared_tag(s, c, e, h) ==
    LET cmd_type == h[1]
        test_num == h[2]
        \* amon_test_count is written before the data windows are parsed
        s0 == [s EXCEPT !.amon_test_count = test_num]
        v == ParseAll(c, BDataWins)
        sram1 == v[1]
        sram2 == v[2]
        sram3 == v[3]
        sram4 == v[4]
        sram5 == v[5]
        s1 == CASE cmd_type = 1 ->
                     SetAmonTest(s0, test_num,
                         [AmonTestAt(s0, test_num) EXCEPT !.tp1_mux_ch = sram1,
                             !.tp1_peak_detect = sram2,
                             !.tp2_mux_ch = sram3,
                             !.tp2_peak_detect = sram4,
                             !.test_type = sram5])
                [] cmd_type = 2 ->
                     SetAmonTest(s0, test_num,
                         [AmonTestAt(s0, test_num) EXCEPT !.tp1_amon_mux_a = sram1,
                             !.tp1_samples = sram2,
                             !.tp2_amon_mux_a = sram3,
                             !.tp2_samples = sram4,
                             !.board = sram5])
                [] cmd_type = 3 ->
                     SetAmonTest(s0, test_num,
                         [AmonTestAt(s0, test_num) EXCEPT !.tp1_amon_mux_b = sram1,
                             !.tp1_discharge = sram2,
                             !.tp2_amon_mux_b = sram3,
                             !.tp2_discharge = sram4,
                             !.board = sram5])
                [] cmd_type = 4 ->
                     SetAmonTest(s0, test_num,
                         [AmonTestAt(s0, test_num) EXCEPT !.tp1_common_mux = sram1,
                             !.tp1_discharge_time = sram2,
                             !.tp2_common_mux = sram3,
                             !.tp2_discharge_time = sram4,
                             !.unit_type = sram5])
                [] OTHER -> s0
    IN  IF e # "" THEN HErr(s, e)
        ELSE IF test_num = 0 \/ test_num > NumAmonTests THEN HErr(s, "InvalidParameter")
        ELSE IF FirstBad(v) # "" THEN HErr(s0, FirstBad(v))
        ELSE IF cmd_type \notin 1..4 THEN HErr(s0, "InvalidParameter")
        ELSE HOk(update_driver_checksum(s1, sram1 + sram2 + sram3 + sram4 + sram5 + test_num + cmd_type))

handle_b_parsed(s, c, e, h) ==
    LET cmd_type == h[1]
        test_num == h[2]
        \* amon_test_count is written before the data windows are parsed
        s0 == [s EXCEPT !.amon_test_count = test_num]
        v == ParseAll(c, BDataWins)
        sram1 == v[1]
        sram2 == v[2]
        sram3 == v[3]
        sram4 == v[4]
        sram5 == v[5]
        s1 == CASE cmd_type = 1 ->
                     SetAmonTest(s0, test_num,
                         [AmonTestAt(s0, test_num) EXCEPT !.tp1_mux_ch = sram1,
                             !.tp1_peak_detect = sram2,
                             !.tp2_mux_ch = sram3,
                             !.tp2_peak_detect = sram4,
                             !.test_type = sram5])
                [] cmd_type = 2 ->
                     SetAmonTest(s0, test_num,
                         [AmonTestAt(s0, test_num) EXCEPT !.tp1_amon_mux_a = sram1,
                             !.tp1_samples = sram2,
                             !.tp2_amon_mux_a = sram3,
                             !.tp2_samples = sram4,
                             !.board = sram5])
                [] cmd_type = 3 ->
                     SetAmonTest(s0, test_num,
                         [AmonTestAt(s0, test_num) EXCEPT !.tp1_amon_mux_b = sram1,
                             !.tp1_discharge = sram2,
                             !.tp2_amon_mux_b = sram3,
                             !.tp2_discharge = sram4,
                             !.tag = sram5])
                [] cmd_type = 4 ->
                     SetAmonTest(s0, test_num,
                         [AmonTestAt(s0, test_num) EXCEPT !.tp1_common_mux = sram1,
                             !.tp1_discharge_time = sram2,
                             !.tp2_common_mux = sram3,
                             !.tp2_discharge_time = sram4,
                             !.unit_type = sram5])
                [] OTHER -> s0
    IN  IF e # "" THEN HErr(s, e)
        ELSE IF test_num = 0 \/ test_num > NumAmonTests THEN HErr(s, "InvalidParameter")
        ELSE IF FirstBad(v) # "" THEN HErr(s0, FirstBad(v))
        ELSE IF cmd_type \notin 1..4 THEN HErr(s0, "InvalidParameter")
        ELSE HOk(update_driver_checksum(s1, sram1 + sram2 + sram3 + sram4 + sram5 + test_num + cmd_type))

\* Fault variant of handle_b_command: a failing command restores the state.
handle_b_restoring(s, c) ==
    IF handle_b_parsed(s, c, Prologue(c, 18, BHeadWins), ParseAll(c, BHeadWins)).err = ""
    THEN handle_b_parsed(s, c, Prologue(c, 18, BHeadWins), ParseAll(c, BHeadWins))
    ELSE HErr(s, handle_b_parsed(s, c, Prologue(c, 18, BHeadWins), ParseAll(c, BHeadWins)).err)

handle_b_command(s, c) == handle_b_parsed(s, c, Prologue(c, 18, BHeadWins), ParseAll(c, BHeadWins))

\* u32::from_str_radix(&content[i..i+1], 16).unwrap_or(0)
NibbleOrZero(b) == IF to_digit(b, 16) < 0 THEN 0 ELSE to_digit(b, 16)

IHeadWins == <<<<3, 4>>, <<4, 6>>>>

\* Fault variant of handle_i_parsed: an unknown cmd_type is accepted and
\* stores nothing.
handle_i_parsed_lenient(s, c, e, h) ==
    LET cmd_type == h[1]
        test_num == h[2]
        float_status == parse_hex_status(c, 13, 21)
        float_as_u32 == parse_hex_word(c, 13, 21)
        float_val == from_bits(float_as_u32)
        s1 == CASE cmd_type = 1 -> SetAmonTest(s, test_num,
                                       [AmonTestAt(s, test_num) EXCEPT !.tp1_gain = float_val])
                [] cmd_type = 2 -> SetAmonTest(s, test_num,
                                       [AmonTestAt(s, test_num) EXCEPT !.tp2_gain = float_val])
                [] cmd_type = 3 -> SetAmonTest(s, test_num,
                                       [AmonTestAt(s, test_num) EXCEPT !.sum_gain = float_val])
                [] cmd_type = 4 -> SetAmonTest(s, test_num,
                                       [AmonTestAt(s, test_num) EXCEPT !.cal_gain = float_val])
                [] cmd_type = 5 -> SetAmonTest(s, test_num,
                                       [AmonTestAt(s, test_num) EXCEPT !.cal_offset = float_val])
                [] cmd_type = 6 -> SetAmonTest(s, test_num,
                                       [AmonTestAt(s, test_num) EXCEPT !.high_limit = float_val])
                [] cmd_type = 7 -> SetAmonTest(s, test_num,
                                       [AmonTestAt(s, test_num) EXCEPT !.low_limit = float_val])
                [] OTHER -> s
        checksum_update == test_num + cmd_type
                           + SumSeq([i \in 1..8 |-> NibbleOrZero(c[13 + i])])
    IN  IF e # "" THEN HErr(s, e)
        ELSE IF test_num = 0 \/ test_num > NumAmonTests THEN HErr(s, "InvalidParameter")
        ELSE IF float_status < 0 THEN HErr(s, FirstBad(<<float_status>>))
        ELSE HOk(update_driver_checksum(s1, checksum_update))

handle_i_parsed(s, c, e, h) ==
    LET cmd_type == h[1]
        test_num == h[2]
        float_status == parse_hex_status(c, 13, 21)
        float_as_u32 == parse_hex_word(c, 13, 21)
        float_val == from_bits(float_as_u32)
        s1 == CASE cmd_type = 1 -> SetAmonTest(s, test_num,
                                       [AmonTestAt(s, test_num) EXCEPT !.tp1_gain = float_val])
                [] cmd_type = 2 -> SetAmonTest(s, test_num,
                                       [AmonTestAt(s, test_num) EXCEPT !.tp2_gain = float_val])
                [] cmd_type = 3 -> SetAmonTest(s, test_num,
                                       [AmonTestAt(s, test_num) EXCEPT !.sum_gain = float_val])
                [] cmd_type = 4 -> SetAmonTest(s, test_num,
                                       [AmonTestAt(s, test_num) EXCEPT !.cal_gain = float_val])
                [] cmd_type = 5 -> SetAmonTest(s, test_num,
                                       [AmonTestAt(s, test_num) EXCEPT !.cal_offset = float_val])
                [] cmd_type = 6 -> SetAmonTest(s, test_num,
                                       [AmonTestAt(s, test_num) EXCEPT !.high_limit = float_val])
                [] cmd_type = 7 -> SetAmonTest(s, test_num,
                                       [AmonTestAt(s, test_num) EXCEPT !.low_limit = float_val])
                [] OTHER -> s
        checksum_update == test_num + cmd_type
                           + SumSeq([i \in 1..8 |-> NibbleOrZero(c[13 + i])])
    IN  IF e # "" THEN HErr(s, e)
        ELSE IF test_num = 0 \/ test_num > NumAmonTests THEN HErr(s, "InvalidParameter")
        ELSE IF float_status < 0 THEN HErr(s, FirstBad(<<float_status>>))
        ELSE IF cmd_type \notin 1..7 THEN HErr(s, "InvalidParameter")
        ELSE HOk(update_driver_checksum(s1, checksum_update))

handle_i_command(s, c) == handle_i_parsed(s, c, Prologue(c, 21, IHeadWins), ParseAll(c, IHeadWins))

YWins == <<<<3, 5>>, <<5, 9>>, <<9, 13>>, <<13, 15>>, <<15, 17>>>>

YChecksum(v) == v[2] + v[3] + v[1] + v[4] + v[5]

handle_y_parsed(s, c, e, v) ==
    LET test_num == v[1]
        cal_gain == v[2]
        cal_offset == v[3]
        board == v[4]
        tag == v[5]
        s1 == IF test_num > 0 /\ test_num <= NumAmonTests
              THEN SetAmonTest(s, test_num,
                       [AmonTestAt(s, test_num) EXCEPT !.cal_gain = as_f32_div(cal_gain, 1000, 1),
                           !.cal_offset = as_f32_div(cal_offset, 1000, 1),
                           !.board = board,
                           !.tag = tag])
              ELSE s
    IN  IF e # "" THEN HErr(s, e)
        ELSE HOk(update_driver_checksum(s1, YChecksum(v)))

handle_y_command(s, c) == handle_y_parsed(s, c, Prologue(c, 17, YWins), ParseAll(c, YWins))

TWins == <<<<3, 5>>, <<5, 7>>, <<7, 9>>, <<9, 11>>, <<11, 13>>, <<13, 15>>, <<15, 17>>, <<17, 19>>>>

\* sram8 = v[1] ... sram1 = v[8]
Sum8(v) == v[8] + v[7] + v[6] + v[5] + v[4] + v[3] + v[2] + v[1]

\* Fault variant of handle_t_parsed: the first four fields are the timers.
handle_t_parsed_swapped(s, c, e, v) ==
    LET s1 == [s EXCEPT !.timer_values = <<v[4], v[3], v[2], v[1]>>,
                        !.alarm_values = <<v[8], v[7], v[6], v[5]>>]
    IN  IF e # "" THEN HErr(s, e)
        ELSE HOk(update_driver_checksum(s1, Sum8(v)))

handle_t_parsed(s, c, e, v) ==
    LET s1 == [s EXCEPT !.timer_values = <<v[8], v[7], v[6], v[5]>>,
                        !.alarm_values = <<v[4], v[3], v[2], v[1]>>]
    IN  IF e # "" THEN HErr(s, e)
        ELSE HOk(update_driver_checksum(s1, Sum8(v)))

handle_t_command(s, c) == handle_t_parsed(s, c, Prologue(c, 19, TWins), ParseAll(c, TWins))

DWins == <<<<3, 5>>, <<5, 9>>, <<9, 12>>, <<12, 16>>, <<16, 17>>>>

DChecksum(v) == v[3] + v[2] + v[1] + v[4] + v[5]

\* x *= -1.0
\* Fault variant of handle_d_parsed: the voltage offset keeps its sign.
handle_d_parsed_unsigned(s, c, e, v) ==
    LET sram3_psu_num == v[1]
        sram2_i_cal == v[2]
        sram1_i_mon == v[3]
        sram4_i_cal_off == v[4]
        sram5_pos_neg == v[5]
        off == as_f32_div(sram4_i_cal_off, 100, 1)
        signed_off == IF sram5_pos_neg = 1 THEN FNeg(off) ELSE off
        s1 == IF sram3_psu_num > 0 /\ sram3_psu_num < 7
              THEN [s EXCEPT !.psus[sram3_psu_num].current_monitor_limit = as_f32_div(sram1_i_mon, 100, 1),
                             !.psus[sram3_psu_num].i_cal_val = as_f32_div(sram2_i_cal, 1000, 1),
                             !.psus[sram3_psu_num].i_cal_offset_val = signed_off,
                             !.psus[sram3_psu_num].pos_neg_i = sram5_pos_neg]
              ELSE IF sram3_psu_num >= 7 /\ sram3_psu_num < 9
              THEN [s EXCEPT !.psus[sram3_psu_num - 6].v_cal_offset_val = off,
                             !.psus[sram3_psu_num - 6].pos_neg_v = sram5_pos_neg]
              ELSE s
    IN  IF e # "" THEN HErr(s, e)
        ELSE HOk(update_driver_checksum(s1, DChecksum(v)))

handle_d_parsed(s, c, e, v) ==
    LET sram3_psu_num == v[1]
        sram2_i_cal == v[2]
        sram1_i_mon == v[3]
        sram4_i_cal_off == v[4]
        sram5_pos_neg == v[5]
        off == as_f32_div(sram4_i_cal_off, 100, 1)
        signed_off == IF sram5_pos_neg = 1 THEN FNeg(off) ELSE off
        s1 == IF sram3_psu_num > 0 /\ sram3_psu_num < 7
              THEN [s EXCEPT !.psus[sram3_psu_num].current_monitor_limit = as_f32_div(sram1_i_mon, 100, 1),
                             !.psus[sram3_psu_num].i_cal_val = as_f32_div(sram2_i_cal, 1000, 1),
                             !.psus[sram3_psu_num].i_cal_offset_val = signed_off,
                             !.psus[sram3_psu_num].pos_neg_i = sram5_pos_neg]
              ELSE IF sram3_psu_num >= 7 /\ sram3_psu_num < 9
              THEN [s EXCEPT !.psus[sram3_psu_num - 6].v_cal_offset_val = signed_off,
                             !.psus[sram3_psu_num - 6].pos_neg_v = sram5_pos_neg]
              ELSE s
    IN  IF e # "" THEN HErr(s, e)
        ELSE HOk(update_driver_checksum(s1, DChecksum(v)))

handle_d_command(s, c) == handle_d_parsed(s, c, Prologue(c, 17, DWins), ParseAll(c, DWins))

SWins == <<<<3, 5>>, <<5, 6>>, <<6, 7>>, <<7, 9>>, <<9, 11>>, <<11, 13>>, <<13, 16>>, <<16, 19>>>>

handle_s_parsed(s, c, e, v) ==
    LET sram8_sw_num == v[1]
        s1 == IF sram8_sw_num > 0 /\ sram8_sw_num <= NumSineWaves
              THEN [s EXCEPT !.sine_waves[sram8_sw_num].enabled = (v[2] = 1),
                             !.sine_waves[sram8_sw_num].reset_value = v[4],
                             !.sine_waves[sram8_sw_num].duty_cycle = v[5],
                             !.sine_waves[sram8_sw_num].frequency_base = v[6],
                             !.sine_waves[sram8_sw_num].offset = v[7],
                             !.sine_waves[sram8_sw_num].amplitude = v[8]]
              ELSE s
    IN  IF e # "" THEN HErr(s, e)
        ELSE HOk(update_driver_checksum(s1, Sum8(v)))

handle_s_command(s, c) == handle_s_parsed(s, c, Prologue(c, 19, SWins), ParseAll(c, SWins))

\* sram9 = v[1], sram8 = v[2], ... sram1 = v[9]
EWins == <<<<3, 7>>, <<7, 9>>, <<9, 11>>, <<11, 13>>, <<13, 15>>, <<15, 16>>, <<16, 17>>, <<17, 18>>, <<18, 19>>>>

EChecksum(v) == v[9] + v[8] + v[7] + v[6] + v[5] + v[4] + v[3] + v[2] + v[1]

handle_e_parsed(s, c, e, v) ==
    LET s1 == [s EXCEPT !.system_config.auto_reset = (v[4] = 1),
                        !.system_config.auto_reset_retries = v[3],
                        !.system_config.stop_on_v_error = (v[9] = 1),
                        !.system_config.stop_on_i_error = (v[8] = 1),
                        !.system_config.stop_on_clk_error = (v[7] = 1),
                        !.system_config.psu_sequence_enabled = (v[6] = 1),
                        !.system_config.stop_on_temp_error = (v[5] = 1),
                        !.system_config.psu_step_enabled = (v[2] = 1),
                        !.system_config.psu_step_delay = v[1]]
    IN  IF e # "" THEN HErr(s, e)
        ELSE HOk(update_driver_checksum(s1, EChecksum(v)))

handle_e_command(s, c) == handle_e_parsed(s, c, Prologue(c, 19, EWins), ParseAll(c, EWins))

\* parse order of the source: sram1, sram2, sram3, _sram4, sram5, sram6, sram7
AWins == <<<<7, 11>>, <<4, 7>>, <<3, 4>>, <<11, 13>>, <<15, 19>>, <<14, 15>>, <<17, 19>>>>

\* Fault variant of AChecksum: every digit counted once, without the window
\* 17..19 that overlaps the power-up delay.
AChecksumDisjoint(v) == v[1] + v[2] + v[3] + v[5] + v[6]

\* Fault variant of AChecksum: the six fields of the command, each once.
AChecksumFields(v) == v[1] + v[2] + v[3] + v[4] + v[5] + v[6]

AChecksum(v) == v[1] + v[2] + v[3] + v[5] + v[6] + v[7]

handle_a_parsed(s, c, e, v) ==
    LET s1 == [s EXCEPT !.system_config.power_up_delay = v[5],
                        !.system_config.set_point_enabled = (v[6] = 1)]
    IN  IF e # "" THEN HErr(s, e)
        ELSE HOk(update_driver_checksum(s1, AChecksum(v)))

handle_a_command(s, c) == handle_a_parsed(s, c, Prologue(c, 19, AWins), ParseAll(c, AWins))

\* sram9 = v[1], sram8 = v[2], sram7 = v[3], sram6 = v[4], _sram5 = v[5],
\* sram4 = v[6], sram3 = v[7], sram2 = v[8], sram1 = v[9]
FWins == <<<<3, 4>>, <<4, 5>>, <<5, 7>>, <<7, 9>>, <<9, 10>>, <<10, 12>>, <<12, 14>>, <<14, 16>>, <<16, 18>>>>

\* Fault variant of FChecksum: the sum of the parsed fields.
FChecksumFields(c) ==
    SumSeq([k \in 1..9 |-> parse_hex(c, FWins[k][1], FWins[k][2])])

\* content[3..18].chars().fold(0, |acc, c| acc + c.to_digit(16).unwrap_or(0))
FChecksum(c) == SumSeq([i \in 1..15 |-> NibbleOrZero(c[3 + i])])

handle_f_parsed(s, c, e, v) ==
    LET s1 == [s EXCEPT !.system_config.clocks_restart_required = (v[2] = 1),
                        !.system_config.clocks_restart_time = (v[4] + (v[3] * 256)) * 60,
                        !.system_config.clk32_mon_filter = not_u32(W(v[9] + (v[8] * 256))),
                        !.system_config.clk64_mon_filter = not_u32(W(v[7] + (v[6] * 256))),
                        !.system_config.clocks_required = (v[1] = 1)]
    IN  IF e # "" THEN HErr(s, e)
        ELSE HOk(update_driver_checksum(s1, FChecksum(c)))

handle_f_command(s, c) == handle_f_parsed(s, c, Prologue(c, 18, FWins), ParseAll(c, FWins))

JWins == <<<<3, 4>>, <<4, 5>>, <<5, 7>>, <<7, 9>>, <<9, 11>>, <<11, 13>>, <<13, 15>>, <<15, 17>>>>

handle_j_parsed(s, c, e, v) ==
    LET s1 == [s EXCEPT !.system_config.sigs_mod_sequence_on = v[1],
                        !.system_config.sigs_mod_sequence_off = v[2],
                        !.system_config.seq_off_delay_3 = v[3],
                        !.system_config.seq_on_delay_3 = v[4],
                        !.system_config.seq_off_delay_2 = v[5],
                        !.system_config.seq_on_delay_2 = v[6],
                        !.system_config.seq_off_delay_1 = v[7],
                        !.system_config.seq_on_delay_1 = v[8]]
    IN  IF e # "" THEN HErr(s, e)
        ELSE HOk(update_driver_checksum(s1, Sum8(v)))

handle_j_command(s, c) == handle_j_parsed(s, c, Prologue(c, 17, JWins), ParseAll(c, JWins))

LWins == <<<<3, 5>>, <<5, 7>>, <<7, 9>>, <<9, 11>>>>

LChecksum(v) == v[1] + v[4] + v[3] + v[2]

handle_l_parsed(s, c, e, v) ==
    LET sram1_loop_num == v[1]
        s1 == IF sram1_loop_num > 0 /\ sram1_loop_num <= NumPatternLoops
              THEN [s EXCEPT !.pattern_loops[sram1_loop_num].count = v[2],
                             !.pattern_loops[sram1_loop_num].end_address = v[3],
                             !.pattern_loops[sram1_loop_num].start_address = v[4]]
              ELSE s
    IN  IF e # "" THEN HErr(s, e)
        ELSE HOk(update_driver_checksum(s1, LChecksum(v)))

handle_l_command(s, c) == handle_l_parsed(s, c, Prologue(c, 11, LWins), ParseAll(c, LWins))

XWins == <<<<3, 5>>, <<5, 7>>, <<7, 9>>, <<9, 11>>, <<11, 12>>, <<12, 14>>>>

XChecksum(v) == v[1] + v[2] + v[3] + v[4] + v[5] + v[6]

handle_x_parsed(s, c, e, v) ==
    LET s1 == [s EXCEPT !.main_clock_config.freq_low_byte = v[1],
                        !.main_clock_config.freq_high_byte = v[2],
                        !.main_clock_config.period_low_byte = v[3],
                        !.main_clock_config.period_high_byte = v[4],
                        !.main_clock_config.source = v[5],
                        !.loop_enables = v[6]]
    IN  IF e # "" THEN HErr(s, e)
        ELSE HOk(update_driver_checksum(s1, XChecksum(v)))

handle_x_command(s, c) == handle_x_parsed(s, c, Prologue(c, 14, XWins), ParseAll(c, XWins))

\* Fault variant of LowWord: the four bytes taken most significant first.
LowWordReversed(v) == from_le_bytes(as_u8(v[5]), as_u8(v[6]), as_u8(v[7]), as_u8(v[8]))

\* the two words of N/G/H/K: [sram1..sram4] and [sram5..sram8], little endian
LowWord(v) == from_le_bytes(as_u8(v[8]), as_u8(v[7]), as_u8(v[6]), as_u8(v[5]))

HighWord(v) == from_le_bytes(as_u8(v[4]), as_u8(v[3]), as_u8(v[2]), as_u8(v[1]))

handle_n_parsed(s, c, e, v) ==
    LET s1 == [s EXCEPT !.repeat_count_1 = LowWord(v), !.repeat_count_2 = HighWord(v)]
    IN  IF e # "" THEN HErr(s, e)
        ELSE HOk(update_driver_checksum(s1, Sum8(v)))

handle_n_command(s, c) == handle_n_parsed(s, c, Prologue(c, 19, TWins), ParseAll(c, TWins))

handle_g_parsed(s, c, e, v) ==
    LET s1 == [s EXCEPT !.frc_config.frequency_1_4 = LowWord(v),
                        !.frc_config.frequency_5_8 = HighWord(v)]
    IN  IF e # "" THEN HErr(s, e)
        ELSE HOk(update_driver_checksum(s1, Sum8(v)))

handle_g_command(s, c) == handle_g_parsed(s, c, Prologue(c, 19, TWins), ParseAll(c, TWins))

handle_h_parsed(s, c, e, v) ==
    LET s1 == [s EXCEPT !.frc_config.period_1_4 = LowWord(v),
                        !.frc_config.period_5_8 = HighWord(v)]
    IN  IF e # "" THEN HErr(s, e)
        ELSE HOk(update_driver_checksum(s1, Sum8(v)))

handle_h_command(s, c) == handle_h_parsed(s, c, Prologue(c, 19, TWins), ParseAll(c, TWins))

KWins == <<<<3, 4>>, <<4, 5>>, <<5, 6>>, <<6, 7>>, <<7, 8>>, <<8, 9>>, <<9, 10>>, <<10, 11>>>>

handle_k_parsed(s, c, e, v) ==
    LET s1 == [s EXCEPT !.frc_config.source_1_4 = LowWord(v),
                        !.frc_config.source_5_8 = HighWord(v)]
    IN  IF e # "" THEN HErr(s, e)
        ELSE HOk(update_driver_checksum(s1, Sum8(v)))

handle_k_command(s, c) == handle_k_parsed(s, c, Prologue(c, 11, KWins), ParseAll(c, KWins))

OWins == <<<<3, 5>>, <<5, 7>>, <<7, 9>>, <<9, 11>>, <<11, 13>>>>

OChecksum(v) == v[1] + v[2] + v[3] + v[4] + v[5]

handle_o_parsed(s, c, e, v) ==
    LET sram1_group == v[1]
        routing_value == from_le_bytes(as_u8(v[2]), as_u8(v[3]), as_u8(v[4]), as_u8(v[5]))
        s1 == IF sram1_group > 0 /\ sram1_group <= NumOutputRouting
              THEN [s EXCEPT !.output_routing[sram1_group] = routing_value]
              ELSE s
    IN  IF e # "" THEN HErr(s, e)
        ELSE HOk(update_driver_checksum(s1, OChecksum(v)))

handle_o_command(s, c) == handle_o_parsed(s, c, Prologue(c, 13, OWins), ParseAll(c, OWins))

(***************************************************************************)
(* Pattern-load data handlers (binary content)                             *)
(***************************************************************************)
\* u32::from_le_bytes(bytes[a..a+4]) of the content
LeWord(bytes, a) == from_le_bytes(bytes[a + 1], bytes[a + 2], bytes[a + 3], bytes[a + 4])

\* The memory writes of one P/R command in program order, each
\* <<fpga (1-based), word, whether sram_address is incremented after it>>
PatternWrites(s, bytes) ==
    IF s.fpgas[2].present
    THEN <<<<1, LeWord(bytes, 1), FALSE>>, <<2, LeWord(bytes, 5), TRUE>>,
           <<1, LeWord(bytes, 10), FALSE>>, <<2, LeWord(bytes, 14), TRUE>>>>
    ELSE <<<<1, LeWord(bytes, 1), TRUE>>, <<1, LeWord(bytes, 6), TRUE>>,
           <<1, LeWord(bytes, 11), TRUE>>, <<1, LeWord(bytes, 16), TRUE>>>>

\* Fault variant of PatternChecksum: the control bytes only.
PatternControlSum(s, bytes) ==
    IF s.fpgas[2].present
    THEN bytes[10] + bytes[19]
    ELSE bytes[6] + bytes[11] + bytes[16] + bytes[21]

\* the checksum contribution of one P/R command
PatternChecksum(s, bytes) ==
    IF s.fpgas[2].present
    THEN bytes[10] + bytes[19] + SumSeq(Slice(bytes, 1, 9)) + SumSeq(Slice(bytes, 10, 18))
    ELSE bytes[6] + bytes[11] + bytes[16] + bytes[21]
         + SumSeq(Slice(bytes, 1, 5)) + SumSeq(Slice(bytes, 6, 10))
         + SumSeq(Slice(bytes, 11, 15)) + SumSeq(Slice(bytes, 16, 20))

PatternMinLen(s) == IF s.fpgas[2].present THEN 19 ELSE 21

\* memory[sram_address as usize] = word: the indexing panics when the index
\* is not below the length of the Vec
IndexInBounds(i) == i < MemLen

\* Fault variant of StoreWord: the tristate bank takes the word as it is.
StoreWordPlain(s, fpga, tristate, word) ==
    IF tristate
    THEN [s EXCEPT !.fpgas[fpga].tristate_memory_a = MemWrite(@, s.sram_address, word)]
    ELSE [s EXCEPT !.fpgas[fpga].pattern_memory_a = MemWrite(@, s.sram_address, word)]

StoreWord(s, fpga, tristate, word) ==
    IF tristate
    THEN [s EXCEPT !.fpgas[fpga].tristate_memory_a = MemWrite(@, s.sram_address, not_u32(word))]
    ELSE [s EXCEPT !.fpgas[fpga].pattern_memory_a = MemWrite(@, s.sram_address, word)]

\* the stores of a command, stopping at the first out-of-bounds index
RECURSIVE ApplyWrites(_, _, _)
ApplyWrites(s, writes, tristate) ==
    IF writes = << >> THEN HOk(s)
    ELSE IF ~IndexInBounds(s.sram_address) THEN HErr(s, "Panic")
    ELSE LET w == writes[1]
             s1 == StoreWord(s, w[1], tristate, w[2])
             s2 == IF w[3] THEN [s1 EXCEPT !.sram_address = @ + 1] ELSE s1
         IN  ApplyWrites(s2, Tail(writes), tristate)

\* Fault variant of handle_pattern_command: a command that is too short has
\* contributed its length to the checksum.
handle_pattern_command_counting(s, bytes, tristate) ==
    IF Len(bytes) < PatternMinLen(s)
    THEN HErr(update_pattern_checksum(s, Len(bytes)), "TooShort")
    ELSE LET r == ApplyWrites(s, PatternWrites(s, bytes), tristate)
         IN  IF r.err # "" THEN r
             ELSE HOk(update_pattern_checksum(r.sim, PatternChecksum(s, bytes)))

handle_pattern_command(s, bytes, tristate) ==
    IF Len(bytes) < PatternMinLen(s) THEN HErr(s, "TooShort")
    ELSE LET r == ApplyWrites(s, PatternWrites(s, bytes), tristate)
         IN  IF r.err # "" THEN r
             ELSE HOk(update_pattern_checksum(r.sim, PatternChecksum(s, bytes)))

handle_p_command(s, bytes) == handle_pattern_command(s, bytes, FALSE)

handle_r_command(s, bytes) == handle_pattern_command(s, bytes, TRUE)

(***************************************************************************)
(* Control frames: parse_command                                           *)
(* A Command is a record [op, a, b]; the outcome is [err, cmd] with err    *)
(* << >> for Ok.  Errors are tuples <<name>> or <<name, argument>>.        *)
(***************************************************************************)
Cmd(op, a, b) == [op |-> op, a |-> a, b |-> b]

POk(cmd) == [err |-> << >>, cmd |-> cmd]

PErr(e) == [err |-> e, cmd |-> Cmd("", 0, 0)]

\* map_err(|_| InvalidParameter) of a parse that may also panic
ParamErr(v) == IF v = -2 THEN <<"Panic">> ELSE <<"InvalidParameter">>

\* the operations whose parameter is the 5 character decimal at 14..19
DataCommand(content, op) ==
    LET data == parse_dec(content, 14, 19)
    IN  IF Len(content) < 19 THEN PErr(<<"TooShort">>)
        ELSE IF data < 0 THEN PErr(ParamErr(data))
        ELSE POk(Cmd(op, data, 0))

\* the match on the command id; cmd_id is -1 when the two digits do not parse
decode_command(content, cmd_id) ==
        IF cmd_id = -1 THEN PErr(<<"InvalidCommandId">>)
        ELSE CASE cmd_id = 1 -> POk(Cmd("ClearClockFail", 0, 0))
               [] cmd_id = 2 -> POk(Cmd("ClearSwFail", 0, 0))
               [] cmd_id = 3 -> POk(Cmd("SequenceOn", 0, 0))
               [] cmd_id = 4 -> POk(Cmd("SequenceOff", 0, 0))
               [] cmd_id = 5 -> DataCommand(content, "SequenceOnCal")
               [] cmd_id = 9 ->
                    IF Len(content) < 19 THEN PErr(<<"TooShort">>)
                    ELSE LET address == parse_dec(content, 9, 14)
                             data == parse_dec(content, 14, 19)
                         IN  IF address < 0 THEN PErr(ParamErr(address))
                             ELSE IF data < 0 THEN PErr(ParamErr(data))
                             ELSE POk(Cmd("SetProgramId", address, data))
               [] cmd_id = 16 ->
                    LET r == DataCommand(content, "SetTempOk")
                    IN  IF r.err # << >> THEN r
                        ELSE POk(Cmd("SetTempOk", IF r.cmd.a = 1 THEN 1 ELSE 0, 0))
               [] cmd_id = 17 -> POk(Cmd("MonitorVi", 0, 0))
               [] cmd_id = 18 -> POk(Cmd("GetConfiguration", 0, 0))
               [] cmd_id = 19 ->
                    LET r == DataCommand(content, "SelfTestMem")
                    IN  IF r.err # << >> THEN r
                        ELSE POk(Cmd("SelfTestMem", IF r.cmd.a # 0 THEN 1 ELSE 0, 0))
               [] cmd_id = 20 -> DataCommand(content, "GetFaultLog")
               [] cmd_id = 21 -> POk(Cmd("GetVersion", 0, 0))
               [] cmd_id = 22 -> POk(Cmd("GetProgramId", 0, 0))
               [] cmd_id = 23 -> POk(Cmd("GetProgramIdChecksum", 0, 0))
               [] cmd_id = 24 -> POk(Cmd("GetViMonitorString", 0, 0))
               [] cmd_id = 25 -> POk(Cmd("GetAmonMonitorString", 0, 0))
               [] cmd_id = 50 ->
                    IF Len(content) < 7 THEN PErr(<<"TooShort">>)
                    ELSE LET param == IF slice_ok(content, 5, 7)
                                      THEN from_str_radix(Slice(content, 5, 7), 10) ELSE -2
                         IN  IF param < 0 THEN PErr(ParamErr(param))
                             ELSE CASE param = 0 -> POk(Cmd("StartPatternLoad", 0, 0))
                                    [] param = 1 -> POk(Cmd("EndPatternLoad", 0, 0))
                                    [] param = 2 -> POk(Cmd("StartDriverConfigLoad", 0, 0))
                                    [] param = 3 -> POk(Cmd("EndDriverConfigLoad", 0, 0))
                                    [] OTHER -> PErr(<<"InvalidParameter">>)
               [] OTHER -> PErr(<<"UnimplementedCommand", cmd_id>>)

parse_command(content) ==
    IF ~slice_ok(content, 3, 5) THEN PErr(<<"Panic">>)
    ELSE decode_command(content, from_str_radix(Slice(content, 3, 5), 10))

(***************************************************************************)
(* Monitored-value synthesis                                               *)
(***************************************************************************)
\* if x < 0.0 { 0.0 } else { x }
ClampNonNeg(x) == IF FLess(x, FZero) THEN FZero ELSE x

\* the literals 409.5, 10.0 and 0.05 as f32
F409_5 == F(1, 819, 2)

F10 == as_f32(10)

F0_05 == F(1, 5, 100)

\* let raw_current_reading = 10.0 * 0.05
raw_current_reading == FMul(F10, F0_05)

\* every operation of the f32 computation rounds its result
psu_monitored(psu) ==
    IF ~psu.enabled
    THEN [psu EXCEPT !.measured_voltage = FZero, !.measured_current = FZero]
    ELSE LET raw_voltage_reading == FDiv(psu.voltage_setpoint, F409_5)
             final_voltage == FAdd(FMul(raw_voltage_reading, psu.psu_cal_val), psu.v_cal_offset_val)
             final_current == FMul(FAdd(raw_current_reading, psu.i_cal_offset_val), psu.i_cal_val)
         IN  [psu EXCEPT !.measured_voltage = ClampNonNeg(final_voltage),
                         !.measured_current = ClampNonNeg(final_current)]

update_monitored_values(s) ==
    [s EXCEPT !.psus = [i \in 1..NumPsus |-> psu_monitored(s.psus[i])]]

(***************************************************************************)
(* Response formatters                                                     *)
(***************************************************************************)
Hash == <<35>>

Comma == <<44>>

Bit(b) == IF b THEN <<49>> ELSE <<48>>

\* the strings of fs, each followed by a comma
RECURSIVE EachComma(_)
EachComma(fs) == IF fs = << >> THEN << >> ELSE fs[1] \o Comma \o EachComma(Tail(fs))

\* the strings of fs separated by commas
JoinComma(fs) ==
    IF fs = << >> THEN << >>
    ELSE EachComma(SubSeq(fs, 1, Len(fs) - 1)) \o fs[Len(fs)]

\* a number as its digits in base 10000, the lowest first, times k, plus
\* carry
RECURSIVE LimbsTimes(_, _, _)
LimbsTimes(ds, k, carry) ==
    IF ds = << >> THEN IF carry = 0 THEN << >> ELSE <<carry>>
    ELSE <<(ds[1] * k + carry) % 10000>>
         \o LimbsTimes(Tail(ds), k, (ds[1] * k + carry) \div 10000)

\* the number times 2^e
RECURSIVE LimbsShift(_, _)
LimbsShift(ds, e) ==
    IF e = 0 THEN ds
    ELSE IF e >= 13 THEN LimbsShift(LimbsTimes(ds, Pow(2, 13), 0), e - 13)
    ELSE LimbsTimes(ds, Pow(2, e), 0)

\* the decimal digits of the number
RECURSIVE LimbsDec(_)
LimbsDec(ds) ==
    IF Len(ds) = 1 THEN ToDec(ds[1])
    ELSE LimbsDec(Tail(ds)) \o ZeroPad(ToDec(ds[1]), 4)

\* the decimal digits of m * 2^e, 2^23 <= m < 2^24 and e >= 0
DecShift(m, e) == LimbsDec(LimbsShift(<<m % 10000, m \div 10000>>, e))

\* the digits of whole + q / 10^k with k fraction digits
WithFraction(whole, q, k) ==
    LET scale == IF k = 1 THEN 10 ELSE 100
    IN  ToDec(whole + (q \div scale)) \o <<46>> \o ZeroPad(ToDec(q % scale), k)

\* the digits of m / p with k fraction digits, p = 2^j and 1 <= j <= 30
Fraction(m, p, k) ==
    LET scaled == (m % p) * (IF k = 1 THEN 10 ELSE 100)
    IN  Only({WithFraction(m \div p, q, k) :
              q \in {Rounded(scaled \div p, Part(scaled % p, p \div 2, FALSE))}})

\* the digits of |x| = m * 2^e with k fraction digits, the exact value
\* rounded half to even
FixedDigits(m, e, k) ==
    IF e >= 0 THEN DecShift(m, e) \o <<46>> \o ZeroPad(<<48>>, k)
    ELSE IF -e >= 32 THEN WithFraction(0, 0, k)
    ELSE IF -e = 31 THEN WithFraction(0, IF k = 2 /\ m * 25 > Pow(2, 28) THEN 1 ELSE 0, k)
    ELSE Only({Fraction(m, p, k) : p \in {Pow(2, -e)}})

\* format!("{:.k}", x) of an f32, k = 1 or 2: "NaN", "inf", "-inf", or the
\* sign of the value and its digits
FixedText(x, k) ==
    IF IsNaN(x) THEN <<78, 97, 78>>
    ELSE (IF x.sign = 1 THEN <<45>> ELSE << >>)
         \o (IF IsInf(x) THEN <<105, 110, 102>>
             ELSE IF IsZero(x) THEN <<48, 46>> \o ZeroPad(<<48>>, k)
             ELSE Only({FixedDigits(u[1], u[2], k) : u \in {Unpack(x)}}))

FormatFixed(x, k) == Only({FixedText(v, k) : v \in {x}})

F100 == as_f32(100)

F1000 == as_f32(1000)

F899 == as_f32(899)

\* the voltage field: v/10 + 1000 with one decimal above 899, else v + 100
VoltageField(v) ==
    IF FLess(F899, v) THEN FormatFixed(FAdd(FDiv(v, F10), F1000), 1)
    ELSE FormatFixed(FAdd(v, F100), 2)

\* self.bib_code + 0x1000 is an addition of u16: at 0xF000 and above it
\* overflows
bib_code_overflows(s) == s.bib_code + 4096 >= Half

\* the sum as a build without overflow checks computes it
bib_code_offset(s) == (s.bib_code + 4096) % Half

\* val + 1000 of one of the four timers or alarms overflows
timers_overflow(timer_values, alarm_values) ==
    \E i \in 1..4 : add_overflows(timer_values[i], 1000) \/ add_overflows(alarm_values[i], 1000)

\* one of the additions of make_ref_monitor_string overflows
ref_monitor_overflows(s) ==
    \/ bib_code_overflows(s)
    \/ add_overflows(s.prog_id_lint, 100000)
    \/ add_overflows(s.prog_id_hint, 100000)
    \/ timers_overflow(s.timer_values, s.alarm_values)

make_ref_monitor_string(s) ==
    Hash \o JoinComma(<<
        ToHex(s.back_panel_address + 256),
        ToHex(s.rs485_address + 256),
        ToHex(bib_code_offset(s)),
        Bit(s.bp_res1_present),
        Bit(s.bp_res2_present),
        ToDec(add_wrapped(s.prog_id_lint, 100000)),
        ToDec(add_wrapped(s.prog_id_hint, 100000)),
        Bit(s.sequence_on),
        ToDec(add_wrapped(s.timer_values[1], 1000)), ToDec(add_wrapped(s.timer_values[2], 1000)),
        ToDec(add_wrapped(s.timer_values[3], 1000)), ToDec(add_wrapped(s.timer_values[4], 1000)),
        ToDec(add_wrapped(s.alarm_values[1], 1000)), ToDec(add_wrapped(s.alarm_values[2], 1000)),
        ToDec(add_wrapped(s.alarm_values[3], 1000)), ToDec(add_wrapped(s.alarm_values[4], 1000)),
        Bit(~s.door_open)>>) \o Hash

make_configuration_string(s) ==
    Hash \o JoinComma(<<
        ToHex(s.back_panel_address + 256),
        ToHex(s.rs485_address + 256),
        ToHex(bib_code_offset(s)),
        Bit(s.bp_res1_present),
        Bit(s.bp_res2_present),
        ToHex(s.psu_data_codes[1] + 256), ToHex(s.psu_data_codes[2] + 256),
        ToHex(s.psu_data_codes[3] + 256), ToHex(s.psu_data_codes[4] + 256),
        ToHex(s.psu_data_codes[5] + 256), ToHex(s.psu_data_codes[6] + 256),
        Bit(s.fpgas[1].present), ToDec(s.fpgas[1].position),
        Bit(s.fpgas[2].present), ToDec(s.fpgas[2].position),
        Bit(s.clock_generators[1].present), ToHex(s.clock_generators[1].module_type + 256),
        Bit(s.clock_generators[2].present), ToHex(s.clock_generators[2].module_type + 256),
        Bit(s.clock_generators[3].present), ToHex(s.clock_generators[3].module_type + 256),
        Bit(s.clock_generators[4].present), ToHex(s.clock_generators[4].module_type + 256),
        Bit(s.sine_waves[1].present), ToHex(s.sine_waves[1].module_type + 256),
        Bit(s.sine_waves[2].present), ToHex(s.sine_waves[2].module_type + 256),
        Bit(s.amon_present), ToHex(s.amon_type + 256),
        Bit(~s.fpgas[1].mem_a_test_ok),
        Bit(~s.fpgas[2].mem_b_test_ok),
        Bit(~s.fpgas[1].ctrl_a_test_ok),
        Bit(~s.fpgas[2].ctrl_b_test_ok),
        Bit(s.sine_waves[1].programmed),
        Bit(s.sine_waves[2].programmed)>>) \o Hash

make_version_string(s) ==
    Hash \o JoinComma(<<
        FormatFixed(FAdd(s.fw_version, F100), 2),
        ToDec(s.fpgas[1].version + 100),
        ToDec(s.fpgas[2].version + 100),
        ToDec(s.clock_generators[1].fpga_version + 100),
        ToDec(s.clock_generators[2].fpga_version + 100),
        ToDec(s.clock_generators[3].fpga_version + 100),
        ToDec(s.clock_generators[4].fpga_version + 100),
        ToDec(s.sine_waves[1].fpga_version + 100),
        ToDec(s.sine_waves[2].fpga_version + 100),
        ToDec(100)>>) \o Hash

\* Fault variant of make_program_id_string: the two numbers are not padded.
make_program_id_unpadded(s) ==
    Hash \o ToDec(s.prog_id_hint) \o Comma \o ToDec(s.prog_id_lint) \o Hash

make_program_id_string(s) ==
    Hash \o ZeroPad(ToDec(s.prog_id_hint), 5) \o Comma \o ZeroPad(ToDec(s.prog_id_lint), 5) \o Hash

\* one '0'/'1' character per PSU
FlagChars(flags) == [i \in 1..NumPsus |-> IF flags[i] THEN 49 ELSE 48]

\* Fault variant of vi_fault_flags: the over-voltage flags come before the
\* under-voltage flags.
vi_fault_flags_reordered(s) ==
    FlagChars([i \in 1..NumPsus |-> FLess(s.psus[i].current_monitor_limit, s.psus[i].measured_current)])
    \o FlagChars([i \in 1..NumPsus |-> FLess(s.psus[i].high_voltage_limit, s.psus[i].measured_voltage)])
    \o FlagChars([i \in 1..NumPsus |-> FLess(s.psus[i].measured_voltage, s.psus[i].low_voltage_limit)])

\* the 18 fault characters of the VI monitor string
vi_fault_flags(s) ==
    FlagChars([i \in 1..NumPsus |-> FLess(s.psus[i].current_monitor_limit, s.psus[i].measured_current)])
    \o FlagChars([i \in 1..NumPsus |-> FLess(s.psus[i].measured_voltage, s.psus[i].low_voltage_limit)])
    \o FlagChars([i \in 1..NumPsus |-> FLess(s.psus[i].high_voltage_limit, s.psus[i].measured_voltage)])

\* the voltage and current fields of the six PSUs, each followed by a comma
RECURSIVE ViPairs(_, _, _)
ViPairs(volts, amps, i) ==
    IF i > 6 THEN << >>
    ELSE VoltageField(volts[i]) \o Comma \o FormatFixed(FAdd(amps[i], F100), 2) \o Comma
         \o ViPairs(volts, amps, i + 1)

\* one of the additions of make_vi_monitor_string overflows
vi_monitor_overflows(s) ==
    \/ add_overflows(s.system_config.auto_reset_counter, 1000)
    \/ timers_overflow(s.timer_values, s.alarm_values)

make_vi_monitor_string(s) ==
    LET sw_status == (IF s.sine_waves[1].has_failure THEN 1 ELSE 0)
                     + (IF s.sine_waves[2].has_failure THEN 2 ELSE 0)
    IN  Hash
        \o ViPairs([i \in 1..6 |-> s.psus[i].measured_voltage],
                   [i \in 1..6 |-> s.psus[i].measured_current], 1)
        \o ToDec(add_wrapped(s.system_config.auto_reset_counter, 1000)) \o Comma
        \o vi_fault_flags(s)
        \o Comma \o ToHex(65536) \o Comma
        \o ToHex(65536) \o Comma
        \o ToHex(65536) \o Comma
        \o ToHex(65536) \o Comma
        \o ToHex(sw_status + 256) \o Comma
        \o FormatFixed(FAdd(s.sine_waves[1].rms_value, F100), 2) \o Comma
        \o FormatFixed(FAdd(s.sine_waves[2].rms_value, F100), 2) \o Comma
        \o Bit(s.sequence_on) \o Comma
        \o EachComma([i \in 1..4 |-> ToDec(add_wrapped(s.timer_values[i], 1000))])
        \o EachComma([i \in 1..4 |-> ToDec(add_wrapped(s.alarm_values[i], 1000))])
        \o Bit(~s.door_open)
        \o Hash

\* bit i (0-based) of a flag byte
FlagBit(flags, i) == (flags \div Pow(2, i)) % 2 = 1

\* one of the additions of make_vi_fault_string overflows
vi_fault_overflows(log) ==
    \/ add_overflows(log.auto_reset_counter, 1000)
    \/ add_overflows(log.sw_fault_status, 256)
    \/ timers_overflow(log.timer_values, log.alarm_values)

make_vi_fault_string(log) ==
    LET body == ViPairs(log.monitor_voltages, log.monitor_currents, 1)
                \o ToDec(add_wrapped(log.auto_reset_counter, 1000)) \o Comma
                \o FlagChars([i \in 1..6 |-> FlagBit(log.over_current_flags, i - 1)])
                \o FlagChars([i \in 1..6 |-> FlagBit(log.under_voltage_flags, i - 1)])
                \o FlagChars([i \in 1..6 |-> FlagBit(log.over_voltage_flags, i - 1)])
                \o Comma \o ToHex(log.clock_status_17_32 + 65536) \o Comma
                \o ToHex(log.clock_status_1_16 + 65536) \o Comma
                \o ToHex(log.clock_status_49_64 + 65536) \o Comma
                \o ToHex(log.clock_status_33_48 + 65536) \o Comma
                \o ToHex(add_wrapped(log.sw_fault_status, 256)) \o Comma
                \o FormatFixed(FAdd(log.sw1_rms, F100), 2) \o Comma
                \o FormatFixed(FAdd(log.sw2_rms, F100), 2) \o Comma
                \o Bit(log.driver_on) \o Comma
                \o EachComma([i \in 1..4 |-> ToDec(add_wrapped(log.timer_values[i], 1000))])
                \o EachComma([i \in 1..4 |-> ToDec(add_wrapped(log.alarm_values[i], 1000))])
    IN  Hash \o SubSeq(body, 1, Len(body) - 1) \o Hash

(***************************************************************************)
(* AMON measurement synthesis                                              *)
(***************************************************************************)
return_amon_read_data_state(s, measured_value, test) ==
    IF test.psu_link = 0 \/ test.psu_link > NumPsus THEN 0
    ELSE LET psu == s.psus[test.psu_link]
         IN  IF test.test_type = 1
             THEN IF FLess(psu.high_voltage_limit, measured_value) THEN 1
                  ELSE IF FLess(measured_value, psu.low_voltage_limit) THEN 2
                  ELSE 0
             ELSE IF test.test_type = 2 \/ test.test_type = 3
             THEN IF FLess(psu.current_monitor_limit, measured_value) THEN 1 ELSE 0
             ELSE 0

\* the PSU a test reads: the linked one, or psus[0]
amon_psu(s, test) ==
    IF test.psu_link > 0 /\ test.psu_link <= NumPsus THEN s.psus[test.psu_link] ELSE s.psus[1]

\* the literals 2.0 and 0.9 as f32
F2 == as_f32(2)

F0_9 == F(1, 9, 10)

simulated_adc_reading(test, psu) ==
    IF test.test_type = 1
    THEN FDiv(FAdd(psu.high_voltage_limit, psu.low_voltage_limit), F2)
    ELSE FDiv(psu.current_monitor_limit, F2)

\* test types 1 and 2
amon_single_reading(test, adc) ==
    FMul(FSub(FMul(adc, test.tp1_gain), test.cal_offset), test.cal_gain)

\* test type 3
amon_difference_reading(test, adc) ==
    LET reading1 == FMul(adc, test.tp1_gain)
        reading2 == FMul(FMul(adc, F0_9), test.tp2_gain)
    IN  FMul(FSub(FMul(FAbs(FSub(reading1, reading2)), test.sum_gain), test.cal_offset),
             test.cal_gain)

amon_raw_value(test, adc) ==
    IF test.test_type \in {1, 2} THEN amon_single_reading(test, adc)
    ELSE IF test.test_type = 3 THEN amon_difference_reading(test, adc)
    ELSE FZero

\* negative measurements read as zero
amon_clamped(raw) == IF FLess(raw, FZero) THEN FZero ELSE raw

amon_with_status(s, test, measured_value) ==
    <<measured_value, return_amon_read_data_state(s, measured_value, test)>>

amon_test_data(s, test) ==
    amon_with_status(s, test,
        amon_clamped(amon_raw_value(test, simulated_adc_reading(test, amon_psu(s, test)))))

\* <<measured_value, status>> of amon_tests[test_index] (1-based here)
measure_amon_test_data(s, test_index) == amon_test_data(s, AmonTestAt(s, test_index))

\* the four fields of one test in the AMON monitor string
AmonField(m, test) ==
    FormatFixed(FAdd(m[1], F100), 2)
    \o Comma \o ToDec(m[2]) \o Comma \o ToDec(add_wrapped(test.board, 10)) \o Comma
    \o ToDec(add_wrapped(test.tag, 100))

\* what iterations from..to of the loop push (tests are 1-based here)
RECURSIVE AmonFields(_, _, _)
AmonFields(s, from, to) ==
    IF from > to THEN << >>
    ELSE IF from = to
    THEN AmonField(measure_amon_test_data(s, from), AmonTestAt(s, from))
         \o (IF from = s.amon_test_count THEN << >> ELSE Comma)
    ELSE AmonFields(s, from, (from + to) \div 2) \o AmonFields(s, (from + to) \div 2 + 1, to)

\* amon_tests[i] panics for i >= 100, that is when amon_test_count > 100
amon_monitor_panics(s) == s.amon_test_count > NumAmonTests

\* one of the additions of make_amon_monitor_string overflows
amon_monitor_overflows(s) ==
    \/ add_overflows(s.amon_bp, 4096)
    \/ \E i \in 1..s.amon_test_count :
         \/ add_overflows(AmonTestAt(s, i).board, 10)
         \/ add_overflows(AmonTestAt(s, i).tag, 100)

make_amon_monitor_string(s) ==
    Hash \o ToHex(add_wrapped(s.amon_bp, 4096)) \o Comma \o AmonFields(s, 1, s.amon_test_count) \o Hash

(***************************************************************************)
(* Control frames: execute_command                                         *)
(* The outcome is [sim, response, panic, wraps]; wraps says that an       *)
(* integer addition overflowed on the way: the response is the one of a    *)
(* build without overflow checks, a build with them panics.                *)
(***************************************************************************)
XOk(s, response) == [sim |-> s, response |-> response, panic |-> FALSE, wraps |-> FALSE]

XPanic(s) == [sim |-> s, response |-> << >>, panic |-> TRUE, wraps |-> FALSE]

XWraps(s, response, wraps) == [XOk(s, response) EXCEPT !.wraps = wraps]

\* Fault variant of sequence_on_psu: a PSU without a final step voltage is
\* left as it is.
sequence_on_psu_lazy(psu) ==
    IF psu.voltage_set_s4 > 0
    THEN [psu EXCEPT !.enabled = TRUE, !.voltage_setpoint = as_f32(psu.voltage_set_s4)]
    ELSE psu

\* Command::SequenceOn, for one PSU
sequence_on_psu(psu) ==
    IF psu.voltage_set_s4 > 0
    THEN [psu EXCEPT !.enabled = TRUE, !.voltage_setpoint = as_f32(psu.voltage_set_s4)]
    ELSE [psu EXCEPT !.enabled = FALSE, !.voltage_setpoint = FZero]

\* Fault variant of cal_setpoints: every PSU takes its own value of the step.
cal_setpoints_own(s, step) ==
    CASE step = 1 -> [i \in 1..6 |-> s.psus[i].voltage_set_s1]
      [] step = 2 -> [i \in 1..6 |-> s.psus[i].voltage_set_s2]
      [] step = 3 -> [i \in 1..6 |-> s.psus[i].voltage_set_s3]
      [] step = 4 -> [i \in 1..6 |-> s.psus[i].voltage_set_s4]
      [] OTHER -> <<0, 0, 0, 0, 0, 0>>

\* Command::SequenceOnCal: the six setpoints of a step
cal_setpoints(s, step) ==
    LET s1 == [i \in 1..6 |-> s.psus[i].voltage_set_s1]
        s2 == [i \in 1..6 |-> s.psus[i].voltage_set_s2]
        s3 == [i \in 1..6 |-> s.psus[i].voltage_set_s3]
        s4 == [i \in 1..6 |-> s.psus[i].voltage_set_s4]
    IN  CASE step = 1 -> <<s1[1], s1[2], s1[3], s1[4], s1[5], s1[5]>>
          [] step = 2 -> <<s2[1], s2[2], s2[3], s2[4], s2[5], s2[5]>>
          [] step = 3 -> <<s3[1], s3[2], s3[3], s3[4], s3[5], s3[5]>>
          [] step = 4 -> <<s4[1], s4[2], s4[3], s4[4], s3[5], s3[5]>>
          [] OTHER -> <<0, 0, 0, 0, 0, 0>>

\* Command::SetProgramId with address = data = 0
clear_program(s) ==
    LET s1 == [s EXCEPT !.system_config.clocks_required = FALSE,
                        !.amon_test_count = 0,
                        !.amon_tests = NoAmonTests]
        s2 == IF s1.fpgas[1].present
              THEN [s1 EXCEPT !.fpgas[1].pattern_memory_a = EmptyMem,
                              !.fpgas[1].pattern_memory_b = EmptyMem,
                              !.fpgas[1].tristate_memory_a = EmptyMem]
              ELSE s1
    IN  IF s2.fpgas[2].present
        THEN [s2 EXCEPT !.fpgas[2].tristate_memory_b = EmptyMem]
        ELSE s2

\* Command::SequenceOnCal: the setpoints applied
sequence_on_cal(s, setpoints) ==
    XOk([s EXCEPT !.psus = [i \in 1..NumPsus |->
                     [s.psus[i] EXCEPT !.enabled = TRUE,
                                       !.voltage_setpoint = as_f32(setpoints[i])]],
                  !.sequence_on = TRUE,
                  !.system_config.auto_reset_counter = 0],
        StrON)

\* Fault variant of self_test_mem: the program ID is kept.
self_test_mem_keeping_id(s) ==
    XOk([s EXCEPT !.fpgas = [i \in 1..2 |->
                      [s.fpgas[i] EXCEPT !.mem_a_test_ok = TRUE, !.mem_b_test_ok = TRUE,
                                         !.ctrl_a_test_ok = TRUE, !.ctrl_b_test_ok = TRUE]]],
        StrOK)

\* Command::SelfTestMem
self_test_mem(s) ==
    XOk([s EXCEPT !.prog_id_hint = 0,
                  !.prog_id_lint = 0,
                  !.fpgas = [i \in 1..2 |->
                      [s.fpgas[i] EXCEPT !.mem_a_test_ok = TRUE, !.mem_b_test_ok = TRUE,
                                         !.ctrl_a_test_ok = TRUE, !.ctrl_b_test_ok = TRUE]]],
        StrOK)

\* Fault variant of sequence_on: a SequenceOn that also closes the load sessions.
sequence_on_closing(s) ==
    XOk([s EXCEPT !.amon_tests = NoAmonTests,
                  !.system_config.auto_reset_counter = 0,
                  !.system_config.ignore_clock_fails = FALSE,
                  !.psus = [i \in 1..NumPsus |-> sequence_on_psu(s.psus[i])],
                  !.sequence_on = TRUE,
                  !.is_pattern_data_loading = FALSE,
                  !.is_driver_data_loading = FALSE],
        StrON)

\* Command::SequenceOn
sequence_on(s) ==
    XOk([s EXCEPT !.amon_tests = NoAmonTests,
                  !.system_config.auto_reset_counter = 0,
                  !.system_config.ignore_clock_fails = FALSE,
                  !.psus = [i \in 1..NumPsus |-> sequence_on_psu(s.psus[i])],
                  !.sequence_on = TRUE],
        StrON)

\* Fault variant of start_pattern_load: the driver session is left open.
start_pattern_load_only(s) ==
    XOk([s EXCEPT !.is_pattern_data_loading = TRUE,
                  !.sram_address = 1,
                  !.pattern_data_checksum = WZero],
        StrOK)

\* DataLoadMode::StartPatternLoad
start_pattern_load(s) ==
    XOk([s EXCEPT !.is_pattern_data_loading = TRUE,
                  !.is_driver_data_loading = FALSE,
                  !.sram_address = 1,
                  !.pattern_data_checksum = WZero],
        StrOK)

\* DataLoadMode::EndPatternLoad
end_pattern_load(s) ==
    XOk([s EXCEPT !.is_pattern_data_loading = FALSE],
        Hash \o WToDec(s.pattern_data_checksum) \o Comma \o ToDec(s.sram_address) \o Comma \o Hash)

\* Fault variant of start_driver_config_load: the accumulated sum is kept.
start_driver_config_load_keeping(s) ==
    XOk([s EXCEPT !.is_driver_data_loading = TRUE,
                  !.is_pattern_data_loading = FALSE],
        StrOK)

\* DataLoadMode::StartDriverConfigLoad
start_driver_config_load(s) ==
    XOk([s EXCEPT !.is_driver_data_loading = TRUE,
                  !.is_pattern_data_loading = FALSE,
                  !.driver_data_checksum = WZero],
        StrOK)

\* DataLoadMode::EndDriverConfigLoad
end_driver_config_load(s) ==
    XOk([s EXCEPT !.is_driver_data_loading = FALSE],
        Hash \o WToDec(s.driver_data_checksum) \o Hash)

\* the match on the command, on the simulator with refreshed measurements
execute_refreshed(s, command) ==
    LET op == command.op
    IN  CASE op = "ClearClockFail" ->
               XOk([s EXCEPT !.clock_generators =
                        [i \in 1..4 |-> [s.clock_generators[i] EXCEPT !.has_failure = FALSE]]],
                   StrOK)
          [] op = "ClearSwFail" ->
               XOk([s EXCEPT !.sine_waves =
                        [i \in 1..NumSineWaves |-> [s.sine_waves[i] EXCEPT !.has_failure = FALSE]]],
                   StrOK)
          [] op = "SequenceOn" -> sequence_on(s)
          [] op = "SequenceOff" ->
               XOk([s EXCEPT !.sequence_on = FALSE], StrOFF)
          [] op = "SequenceOnCal" -> sequence_on_cal(s, cal_setpoints(s, command.a))
          [] op = "SetProgramId" ->
               LET s1 == [s EXCEPT !.prog_id_hint = command.a, !.prog_id_lint = command.b]
               IN  XOk(IF command.a = 0 /\ command.b = 0 THEN clear_program(s1) ELSE s1, StrOK)
          [] op = "SetTempOk" ->
               LET s1 == [s EXCEPT !.temp_ok = (command.a = 1)]
               IN  XWraps(s1, make_vi_monitor_string(s1), vi_monitor_overflows(s1))
          [] op = "MonitorVi" ->
               XWraps(s, make_ref_monitor_string(s), ref_monitor_overflows(s))
          [] op = "GetConfiguration" ->
               XWraps(s, make_configuration_string(s), bib_code_overflows(s))
          [] op = "SelfTestMem" -> self_test_mem(s)
          [] op = "GetFaultLog" ->
               IF command.a < NumFaultLogs
               THEN XWraps(s, make_vi_fault_string(s.fault_logs[command.a + 1]),
                           vi_fault_overflows(s.fault_logs[command.a + 1]))
               ELSE XOk(s, make_vi_fault_string(FaultLogDefault))
          [] op = "GetVersion" -> XOk(s, make_version_string(s))
          [] op = "GetProgramId" -> XOk(s, make_program_id_string(s))
          [] op = "GetProgramIdChecksum" ->
               XWraps(s, Hash \o ToDec(add_wrapped(s.prog_id_hint, s.prog_id_lint)) \o Hash,
                      add_overflows(s.prog_id_hint, s.prog_id_lint))
          [] op = "GetViMonitorString" ->
               XWraps(s, make_vi_monitor_string(s), vi_monitor_overflows(s))
          [] op = "GetAmonMonitorString" ->
               IF amon_monitor_panics(s) THEN XPanic(s)
               ELSE XWraps(s, make_amon_monitor_string(s), amon_monitor_overflows(s))
          [] op = "StartPatternLoad" -> start_pattern_load(s)
          [] op = "EndPatternLoad" -> end_pattern_load(s)
          [] op = "StartDriverConfigLoad" -> start_driver_config_load(s)
          [] op = "EndDriverConfigLoad" -> end_driver_config_load(s)

\* Fault variant of execute_command: the measurements are not refreshed.
execute_command_stale(s0, command) == execute_refreshed(s0, command)

\* self.update_monitored_values(); match command { ... }
execute_command(s0, command) ==
    Only({execute_refreshed(s, command) : s \in {update_monitored_values(s0)}})

(***************************************************************************)
(* process_command                                                         *)
(* The outcome is [sim, res, op]: res = [kind, response, logs, err] is     *)
(* what the call returns, where kind is "Ok", "Err" or "Panic", response   *)
(* is << >> for None and <<string>> for Some(string), and err is the       *)
(* CommandError of an Err; op names the Command execute_command ran, ""    *)
(* when the call ran none; wraps is the wraps of execute_command.           *)
(***************************************************************************)
ROk(s, response, logs) ==
    [sim |-> s, op |-> "", wraps |-> FALSE,
     res |-> [kind |-> "Ok", response |-> response, logs |-> logs, err |-> << >>]]

RErr(s, e) ==
    [sim |-> s, op |-> "", wraps |-> FALSE,
     res |-> [kind |-> IF e = <<"Panic">> THEN "Panic" ELSE "Err",
              response |-> << >>, logs |-> << >>, err |-> e]]

\* command_bytes.iter().position(|&b| b == x), 0-based, -1 for None
RECURSIVE PositionFrom(_, _, _)
PositionFrom(bytes, x, i) ==
    IF i > Len(bytes) THEN -1
    ELSE IF bytes[i] = x THEN i - 1
    ELSE PositionFrom(bytes, x, i + 1)

position(bytes, x) == PositionFrom(bytes, x, 1)

\* command_bytes.iter().rposition(|&b| b == x), 0-based, -1 for None
RECURSIVE RPositionFrom(_, _, _)
RPositionFrom(bytes, x, i) ==
    IF i < 1 THEN -1
    ELSE IF bytes[i] = x THEN i - 1
    ELSE RPositionFrom(bytes, x, i - 1)

rposition(bytes, x) == RPositionFrom(bytes, x, Len(bytes))

\* Fault variant of HasFrame: a second '>' invalidates the frame.
HasFrameSingleEnd(bytes) ==
    /\ position(bytes, 60) >= 0
    /\ rposition(bytes, 62) > position(bytes, 60)
    /\ position(bytes, 62) = rposition(bytes, 62)

\* (Some(start), Some(end)) if end > start
HasFrame(bytes) ==
    position(bytes, 60) >= 0 /\ rposition(bytes, 62) > position(bytes, 60)

\* Fault variant of FrameContent: the content taken from the start of the
\* buffer.
FrameContentFromStart(bytes) == Slice(bytes, 1, rposition(bytes, 62))

\* &command_bytes[start + 1..end]
FrameContent(bytes) == Slice(bytes, position(bytes, 60) + 1, rposition(bytes, 62))

PatternLetters == {80, 82}

DriverLetters ==
    {86, 81, 84, 68, 83, 69, 65, 70, 74, 76, 88, 78, 71, 72, 75, 79, 77, 90, 87, 85, 66, 73, 89}

pattern_handler(s, c) ==
    IF c[1] = 80 THEN handle_p_command(s, c) ELSE handle_r_command(s, c)

driver_handler(s, c) ==
    CASE c[1] = 86 -> handle_v_command(s, c)
      [] c[1] = 81 -> handle_q_command(s, c)
      [] c[1] = 84 -> handle_t_command(s, c)
      [] c[1] = 68 -> handle_d_command(s, c)
      [] c[1] = 83 -> handle_s_command(s, c)
      [] c[1] = 69 -> handle_e_command(s, c)
      [] c[1] = 65 -> handle_a_command(s, c)
      [] c[1] = 70 -> handle_f_command(s, c)
      [] c[1] = 74 -> handle_j_command(s, c)
      [] c[1] = 76 -> handle_l_command(s, c)
      [] c[1] = 88 -> handle_x_command(s, c)
      [] c[1] = 78 -> handle_n_command(s, c)
      [] c[1] = 71 -> handle_g_command(s, c)
      [] c[1] = 72 -> handle_h_command(s, c)
      [] c[1] = 75 -> handle_k_command(s, c)
      [] c[1] = 79 -> handle_o_command(s, c)
      [] c[1] = 77 -> handle_m_command(s, c)
      [] c[1] = 90 -> handle_z_command(s, c)
      [] c[1] = 87 -> handle_w_command(s, c)
      [] c[1] = 85 -> handle_u_command(s, c)
      [] c[1] = 66 -> handle_b_command(s, c)
      [] c[1] = 73 -> handle_i_command(s, c)
      [] c[1] = 89 -> handle_y_command(s, c)

\* Fault variant of ContentRoute: data letters dispatched without a session.
ContentRouteUngated(s, c) ==
    IF c[1] \in PatternLetters THEN "pattern"
    ELSE IF c[1] \in DriverLetters THEN "driver"
    ELSE IF c[1] = 67 THEN "control"
    ELSE "ignore"

\* the branch a non-empty content takes in state s
ContentRoute(s, c) ==
    IF s.is_pattern_data_loading /\ c[1] \in PatternLetters THEN "pattern"
    ELSE IF s.is_driver_data_loading /\ c[1] \in DriverLetters THEN "driver"
    ELSE IF c[1] = 67 THEN "control"
    ELSE "ignore"

\* the branch of process_command a buffer takes in state s
Route(s, bytes) ==
    IF ~HasFrame(bytes) THEN "reject"
    ELSE IF FrameContent(bytes) = << >> THEN "reject"
    ELSE ContentRoute(s, FrameContent(bytes))

\* Fault variant of data_result: a failing data command closes the sessions.
data_result_closing(h) ==
    IF h.err = "" THEN ROk(h.sim, << >>, h.sim.log_buffer)
    ELSE RErr([h.sim EXCEPT !.is_pattern_data_loading = FALSE,
                            !.is_driver_data_loading = FALSE], <<h.err>>)

\* self.handle_x_command(content_bytes)?; return Ok(ProcessResult { response: None, logs })
data_result(h) ==
    IF h.err = "" THEN ROk(h.sim, << >>, h.sim.log_buffer) ELSE RErr(h.sim, <<h.err>>)

\* Fault variant of control_respond: the response loses its last character.
control_respond_cut(x, op) ==
    IF x.panic
    THEN [RErr(x.sim, <<"Panic">>) EXCEPT !.op = op]
    ELSE [ROk(x.sim, <<SubSeq(x.response, 1, Len(x.response) - 1)>>, x.sim.log_buffer)
             EXCEPT !.op = op, !.wraps = x.wraps]

\* Ok(ProcessResult { response: Some(response), logs }), or the panic of execute_command
control_respond(x, op) ==
    IF x.panic
    THEN [RErr(x.sim, <<"Panic">>) EXCEPT !.op = op]
    ELSE [ROk(x.sim, <<x.response>>, x.sim.log_buffer) EXCEPT !.op = op, !.wraps = x.wraps]

\* Fault variant of control_execute: a command that does not parse is
\* answered "#OK#".
control_execute_lenient(s, p) ==
    IF p.err # << >> THEN ROk(s, <<StrOK>>, << >>)
    ELSE control_respond(execute_command(s, p.cmd), p.cmd.op)

\* Fault variant of control_execute: the command is executed with both
\* sessions closed.
control_execute_closing(s, p) ==
    IF p.err # << >> THEN RErr(s, p.err)
    ELSE control_respond(execute_command([s EXCEPT !.is_pattern_data_loading = FALSE,
                                                   !.is_driver_data_loading = FALSE], p.cmd),
                         p.cmd.op)

\* let command = self.parse_command(content)?; let response = self.execute_command(command)
control_execute(s, p) ==
    IF p.err # << >> THEN RErr(s, p.err)
    ELSE control_respond(execute_command(s, p.cmd), p.cmd.op)

\* Fault variant of control_addressed: every address is served.
control_unfiltered(s, c, address) ==
    IF address = -1 THEN RErr(s, <<"InvalidAddress">>)
    ELSE control_execute(s, parse_command(c))

\* the address filter; address is -1 when the two digits do not parse
control_addressed(s, c, address) ==
    IF address = -1 THEN RErr(s, <<"InvalidAddress">>)
    ELSE IF address # s.rs485_address THEN ROk(s, << >>, << >>)
    ELSE control_execute(s, parse_command(c))

\* Fault variant of control_frame: the address is looked at before the length.
control_frame_address_first(s, c) ==
    IF ~from_utf8_ok(c) THEN RErr(s, <<"InvalidParameter">>)
    ELSE IF Len(c) < 3 THEN RErr(s, <<"TooShort">>)
    ELSE IF ~slice_ok(c, 1, 3) THEN RErr(s, <<"Panic">>)
    ELSE IF from_str_radix(Slice(c, 1, 3), 16) \notin {-1, s.rs485_address}
    THEN ROk(s, << >>, << >>)
    ELSE IF Len(c) < 5 THEN RErr(s, <<"TooShort">>)
    ELSE control_addressed(s, c, from_str_radix(Slice(c, 1, 3), 16))

\* the 'C' branch
control_frame(s, c) ==
    IF ~from_utf8_ok(c) THEN RErr(s, <<"InvalidParameter">>)
    ELSE IF Len(c) < 5 THEN RErr(s, <<"TooShort">>)
    ELSE IF ~slice_ok(c, 1, 3) THEN RErr(s, <<"Panic">>)
    ELSE control_addressed(s, c, from_str_radix(Slice(c, 1, 3), 16))

\* Fault variant of content_dispatch: a driver letter is served only when
\* the two characters after it are the address of the simulator.
content_dispatch_filtered(s, c) ==
    IF c = << >> THEN RErr(s, <<"TooShort">>)
    ELSE CASE ContentRoute(s, c) = "pattern" -> data_result(pattern_handler(s, c))
           [] ContentRoute(s, c) = "driver" ->
                IF Len(c) >= 3 /\ from_str_radix(Slice(c, 1, 3), 16) # s.rs485_address
                THEN ROk(s, << >>, << >>)
                ELSE data_result(driver_handler(s, c))
           [] ContentRoute(s, c) = "control" -> control_frame(s, c)
           [] ContentRoute(s, c) = "ignore" -> ROk(s, << >>, << >>)

\* the dispatch on the content of a frame
content_dispatch(s, c) ==
    IF c = << >> THEN RErr(s, <<"TooShort">>)
    ELSE CASE ContentRoute(s, c) = "pattern" -> data_result(pattern_handler(s, c))
           [] ContentRoute(s, c) = "driver" -> data_result(driver_handler(s, c))
           [] ContentRoute(s, c) = "control" -> control_frame(s, c)
           [] ContentRoute(s, c) = "ignore" -> ROk(s, << >>, << >>)

\* Fault variant of frame_dispatch: a missing frame reported as TooShort.
frame_dispatch_short(s, command_bytes) ==
    IF ~HasFrame(command_bytes) THEN RErr(s, <<"TooShort">>)
    ELSE content_dispatch(s, FrameContent(command_bytes))

\* process_command after self.log_buffer.clear()
frame_dispatch(s, command_bytes) ==
    IF ~HasFrame(command_bytes) THEN RErr(s, <<"InvalidFrame">>)
    ELSE content_dispatch(s, FrameContent(command_bytes))

\* Fault variant of process_command: log_buffer is not cleared.
process_command_keeping(s0, command_bytes) == frame_dispatch(s0, command_bytes)

process_command(s0, command_bytes) ==
    frame_dispatch([s0 EXCEPT !.log_buffer = << >>], command_bytes)

(***************************************************************************)
(* Input buffers: the byte strings handed to process_command               *)
(***************************************************************************)
\* no '<': C1F03>
NoStartFrame == <<67, 49, 70, 48, 51, 62>>

\* no '>': <C1F03
NoEndFrame == <<60, 67, 49, 70, 48, 51>>

\* the last '>' before the first '<': >C1F03<
ReversedFrame == <<62, 67, 49, 70, 48, 51, 60>>

\* empty content: <>
EmptyFrame == <<60, 62>>

\* control 50 sub 00: <C1F5000>
StartPatternFrame == <<60, 67, 49, 70, 53, 48, 48, 48, 62>>

\* control 50 sub 01: <C1F5001>
EndPatternFrame == <<60, 67, 49, 70, 53, 48, 48, 49, 62>>

\* control 50 sub 02: <C1F5002>
StartDriverFrame == <<60, 67, 49, 70, 53, 48, 48, 50, 62>>

\* control 50 sub 03: <C1F5003>
EndDriverFrame == <<60, 67, 49, 70, 53, 48, 48, 51, 62>>

\* control 50 sub 02 between line noise: \x0D\x0A<C1F5002>\x0D\x0A
NoisyStartDriverFrame == <<13, 10, 60, 67, 49, 70, 53, 48, 48, 50, 62, 13, 10>>

\* control 50 sub 03 for address 0x2A: <C2A5003>
OtherAddressFrame == <<60, 67, 50, 65, 53, 48, 48, 51, 62>>

\* a control frame for address 0x2A with 4 content bytes: <C2A0>
ShortOtherAddressFrame == <<60, 67, 50, 65, 48, 62>>

\* control 03: <C1F03>
SequenceOnFrame == <<60, 67, 49, 70, 48, 51, 62>>

\* a letter no branch dispatches: <z1F00>
UnknownLetterFrame == <<60, 122, 49, 70, 48, 48, 62>>

\* a valid V command: <V1F0100064050040030>
DriverVFrame ==
    <<60, 86, 49, 70, 48, 49, 48, 48, 48, 54, 52, 48, 53, 48, 48, 52, 48, 48, 51, 48, 62>>

\* a valid Q command: <Q1F0200A103E80320C811>
DriverQFrame ==
    <<60, 81, 49, 70, 48, 50, 48, 48, 65, 49, 48, 51, 69, 56, 48, 51, 50, 48, 67, 56, 49, 49,
      62>>

\* a valid M command: <M1F01005100100200300>
DriverMFrame ==
    <<60, 77, 49, 70, 48, 49, 48, 48, 53, 49, 48, 48, 49, 48, 48, 50, 48, 48, 51, 48, 48, 62>>

\* a valid Z command: <Z1F01000A001400>
DriverZFrame == <<60, 90, 49, 70, 48, 49, 48, 48, 48, 65, 48, 48, 49, 52, 48, 48, 62>>

\* a valid W command: <W1F010203040506070809>
DriverWFrame ==
    <<60, 87, 49, 70, 48, 49, 48, 50, 48, 51, 48, 52, 48, 53, 48, 54, 48, 55, 48, 56, 48, 57,
      62>>

\* a valid U command: <U1F0103E807D00BB805>
DriverUFrame ==
    <<60, 85, 49, 70, 48, 49, 48, 51, 69, 56, 48, 55, 68, 48, 48, 66, 66, 56, 48, 53, 62>>

\* a valid B command: <B1F105000102030405>
DriverBFrame == <<60, 66, 49, 70, 49, 48, 53, 48, 48, 48, 49, 48, 50, 48, 51, 48, 52, 48, 53, 62>>

\* a valid I command: <I1F10100000003F800000>
DriverIFrame ==
    <<60, 73, 49, 70, 49, 48, 49, 48, 48, 48, 48, 48, 48, 48, 51, 70, 56, 48, 48, 48, 48, 48,
      62>>

\* a valid Y command: <Y1F0103E800640203>
DriverYFrame == <<60, 89, 49, 70, 48, 49, 48, 51, 69, 56, 48, 48, 54, 52, 48, 50, 48, 51, 62>>

\* a valid T command: <T1F0102030405060708>
DriverTFrame ==
    <<60, 84, 49, 70, 48, 49, 48, 50, 48, 51, 48, 52, 48, 53, 48, 54, 48, 55, 48, 56, 62>>

\* a valid D command: <D1F0103E806400321>
DriverDFrame == <<60, 68, 49, 70, 48, 49, 48, 51, 69, 56, 48, 54, 52, 48, 48, 51, 50, 49, 62>>

\* a valid S command: <S1F011010320506400C>
DriverSFrame ==
    <<60, 83, 49, 70, 48, 49, 49, 48, 49, 48, 51, 50, 48, 53, 48, 54, 52, 48, 48, 67, 62>>

\* a valid E command: <E1F0064010301011011>
DriverEFrame ==
    <<60, 69, 49, 70, 48, 48, 54, 52, 48, 49, 48, 51, 48, 49, 48, 49, 49, 48, 49, 49, 62>>

\* a valid A command: <A1F1002000300010123>
DriverAFrame ==
    <<60, 65, 49, 70, 49, 48, 48, 50, 48, 48, 48, 51, 48, 48, 48, 49, 48, 49, 50, 51, 62>>

\* a valid F command: <F1F110005012345678>
DriverFFrame == <<60, 70, 49, 70, 49, 49, 48, 48, 48, 53, 48, 49, 50, 51, 52, 53, 54, 55, 56, 62>>

\* a valid J command: <J1F12030405060708>
DriverJFrame == <<60, 74, 49, 70, 49, 50, 48, 51, 48, 52, 48, 53, 48, 54, 48, 55, 48, 56, 62>>

\* a valid L command: <L1F010A2010>
DriverLFrame == <<60, 76, 49, 70, 48, 49, 48, 65, 50, 48, 49, 48, 62>>

\* a valid X command: <X1F102030401FF>
DriverXFrame == <<60, 88, 49, 70, 49, 48, 50, 48, 51, 48, 52, 48, 49, 70, 70, 62>>

\* a valid N command: <N1F0102030405060708>
DriverNFrame ==
    <<60, 78, 49, 70, 48, 49, 48, 50, 48, 51, 48, 52, 48, 53, 48, 54, 48, 55, 48, 56, 62>>

\* a valid G command: <G1FFFFEFDFC04030201>
DriverGFrame ==
    <<60, 71, 49, 70, 70, 70, 70, 69, 70, 68, 70, 67, 48, 52, 48, 51, 48, 50, 48, 49, 62>>

\* a valid H command: <H2A1112131415161718>
DriverHFrame ==
    <<60, 72, 50, 65, 49, 49, 49, 50, 49, 51, 49, 52, 49, 53, 49, 54, 49, 55, 49, 56, 62>>

\* a valid K command: <K1F12345678>
DriverKFrame == <<60, 75, 49, 70, 49, 50, 51, 52, 53, 54, 55, 56, 62>>

\* a valid O command: <Oxx0901020304>
DriverOFrame == <<60, 79, 120, 120, 48, 57, 48, 49, 48, 50, 48, 51, 48, 52, 62>>

\* a U command contributing 3 * 0xFFFF + 5: <U1F00FFFFFFFFFFFF05>
DriverWrapFrame ==
    <<60, 85, 49, 70, 48, 48, 70, 70, 70, 70, 70, 70, 70, 70, 70, 70, 70, 70, 48, 53, 62>>

\* a V command below its minimum length: <V1F01>
ShortVFrame == <<60, 86, 49, 70, 48, 49, 62>>

\* a V command with a non-hex field: <V1F01000640500400ZZ>
BadHexVFrame ==
    <<60, 86, 49, 70, 48, 49, 48, 48, 48, 54, 52, 48, 53, 48, 48, 52, 48, 48, 90, 90, 62>>

\* a B command with cmd_type 5 for test 7: <B1F507000102030405>
BadTypeBFrame == <<60, 66, 49, 70, 53, 48, 55, 48, 48, 48, 49, 48, 50, 48, 51, 48, 52, 48, 53, 62>>

\* a V command that is not UTF-8: <V1F0100064050040\xFF\xFE\xFD>
NonUtf8VFrame ==
    <<60, 86, 49, 70, 48, 49, 48, 48, 48, 54, 52, 48, 53, 48, 48, 52, 48, 255, 254, 253, 62>>

\* a P command of four words: <P\x01\x02\x03\x04\x11\x05\x06\x07\x08"\x09\x0A\x0B\x0C3\x0D\x0E\x0F\x10D>
PatternQuadFrame ==
    <<60, 80, 1, 2, 3, 4, 17, 5, 6, 7, 8, 34, 9, 10, 11, 12, 51, 13, 14, 15, 16, 68, 62>>

\* a P command of two word pairs (19 bytes): <P\x01\x02\x03\x04\x11\x12\x13\x14\xAA\x05\x06\x07\x08\x15\x16\x17\x18\xBB>
PatternPairFrame == <<60, 80, 1, 2, 3, 4, 17, 18, 19, 20, 170, 5, 6, 7, 8, 21, 22, 23, 24, 187, 62>>

\* an R command of four words: <R\xFF\xFF\xFF\xFF\x01\x00\x00\x00\x00\x02\xF0\x0F\xA5Z\x03\x01\x00\x00\x80\x04>
TristateFrame ==
    <<60, 82, 255, 255, 255, 255, 1, 0, 0, 0, 0, 2, 240, 15, 165, 90, 3, 1, 0, 0, 128, 4, 62>>

\* a P command of zero bytes: <P\x00\x00\x00\x00\x00\x00\x00\x00\x00\x00\x00\x00\x00\x00\x00\x00\x00\x00\x00\x00>
PatternZeroFrame == <<60, 80, 0, 0, 0, 0, 0, 0, 0, 0, 0, 0, 0, 0, 0, 0, 0, 0, 0, 0, 0, 0, 62>>

\* a P command below both minimum lengths: <P\x01\x02\x03\x04\x11>
ShortPatternFrame == <<60, 80, 1, 2, 3, 4, 17, 62>>

\* control 03 after leading bytes: noise<C1F03>
LeadingNoiseFrame == <<110, 111, 105, 115, 101, 60, 67, 49, 70, 48, 51, 62>>

\* a valid V command between other bytes: ab<V1F0100064050040030>\x0D\x0A
NoisyDriverVFrame ==
    <<97, 98, 60, 86, 49, 70, 48, 49, 48, 48, 48, 54, 52, 48, 53, 48, 48, 52, 48, 48, 51, 48,
      62, 13, 10>>

\* a second '<' inside the frame: <<C1F03>
NestedStartFrame == <<60, 60, 67, 49, 70, 48, 51, 62>>

\* control 03 followed by '>' bytes and text: <C1F03>>>garbage
TrailingGarbageFrame == <<60, 67, 49, 70, 48, 51, 62, 62, 62, 103, 97, 114, 98, 97, 103, 101>>

\* control 03 followed by a byte that is not UTF-8 and '>': <C1F03>\xFF>
TrailingBytesFrame == <<60, 67, 49, 70, 48, 51, 62, 255, 62>>

\* operation 06, not supported: <C1F06>
UnknownOp06Frame == <<60, 67, 49, 70, 48, 54, 62>>

\* operation 99, not supported: <C1F99>
UnknownOp99Frame == <<60, 67, 49, 70, 57, 57, 62>>

\* an address that is not hexadecimal: <CZZ03>
BadAddressFrame == <<60, 67, 90, 90, 48, 51, 62>>

\* neither the address nor the operation parses: <CZZXX>
BadAddressBadOpFrame == <<60, 67, 90, 90, 88, 88, 62>>

\* address 0x2A and an operation that does not parse: <C2AXX>
OtherAddressBadOpFrame == <<60, 67, 50, 65, 88, 88, 62>>

\* an operation that is not decimal: <C1FXX>
BadOpFrame == <<60, 67, 49, 70, 88, 88, 62>>

\* a two-byte character across the end of the address: <C1\xC3\xA903>
SplitAddressFrame == <<60, 67, 49, 195, 169, 48, 51, 62>>

\* an operation written with a sign: <C1F+3>
SignedOpFrame == <<60, 67, 49, 70, 43, 51, 62>>

\* a two-byte character across the end of the operation: <C1F0\xC3\xA9>
SplitOpFrame == <<60, 67, 49, 70, 48, 195, 169, 62>>

\* a control frame of 3 content bytes: <C1F>
ShortControlFrame == <<60, 67, 49, 70, 62>>

\* a control frame of 3 characters in 5 content bytes: <C\xC3\xA9\xC3\xA9>
WideCharsControlFrame == <<60, 67, 195, 169, 195, 169, 62>>

\* a control frame of 2 content bytes, not UTF-8: <C\xFF>
ShortBytesControlFrame == <<60, 67, 255, 62>>

\* control 01: <C1F01>
ClearClockFailFrame == <<60, 67, 49, 70, 48, 49, 62>>

\* control 02: <C1F02>
ClearSwFailFrame == <<60, 67, 49, 70, 48, 50, 62>>

\* control 04: <C1F04>
SequenceOffFrame == <<60, 67, 49, 70, 48, 52, 62>>

\* control 05, step 2: <C1F0500000000000002>
SequenceOnCalFrame ==
    <<60, 67, 49, 70, 48, 53, 48, 48, 48, 48, 48, 48, 48, 48, 48, 48, 48, 48, 48, 50, 62>>

\* control 09 with both fields zero: <C1F0900000000000000>
ZeroProgramIdFrame ==
    <<60, 67, 49, 70, 48, 57, 48, 48, 48, 48, 48, 48, 48, 48, 48, 48, 48, 48, 48, 48, 62>>

\* control 09 with 12345 and 54321: <C1F0900001234554321>
SetProgramIdFrame ==
    <<60, 67, 49, 70, 48, 57, 48, 48, 48, 48, 49, 50, 51, 52, 53, 53, 52, 51, 50, 49, 62>>

\* control 16 with 1: <C1F1600000000000001>
SetTempOkFrame ==
    <<60, 67, 49, 70, 49, 54, 48, 48, 48, 48, 48, 48, 48, 48, 48, 48, 48, 48, 48, 49, 62>>

\* control 17: <C1F17>
MonitorViFrame == <<60, 67, 49, 70, 49, 55, 62>>

\* control 18: <C1F18>
GetConfigurationFrame == <<60, 67, 49, 70, 49, 56, 62>>

\* control 19 without its parameter: <C1F19>
ShortSelfTestFrame == <<60, 67, 49, 70, 49, 57, 62>>

\* control 19: <C1F190000000000000000>
SelfTestMemFrame ==
    <<60, 67, 49, 70, 49, 57, 48, 48, 48, 48, 48, 48, 48, 48, 48, 48, 48, 48, 48, 48, 48, 48,
      62>>

\* control 20, log 2: <C1F2000000000000002>
GetFaultLogFrame ==
    <<60, 67, 49, 70, 50, 48, 48, 48, 48, 48, 48, 48, 48, 48, 48, 48, 48, 48, 48, 50, 62>>

\* control 21: <C1F21>
GetVersionFrame == <<60, 67, 49, 70, 50, 49, 62>>

\* control 22: <C1F22>
GetProgramIdFrame == <<60, 67, 49, 70, 50, 50, 62>>

\* control 23: <C1F23>
GetProgramIdChecksumFrame == <<60, 67, 49, 70, 50, 51, 62>>

\* control 24: <C1F24>
GetViMonitorFrame == <<60, 67, 49, 70, 50, 52, 62>>

\* control 25: <C1F25>
GetAmonMonitorFrame == <<60, 67, 49, 70, 50, 53, 62>>

Inputs ==
    {NoStartFrame, NoEndFrame, ReversedFrame, EmptyFrame, StartPatternFrame, EndPatternFrame,
     StartDriverFrame, EndDriverFrame, NoisyStartDriverFrame, OtherAddressFrame,
     ShortOtherAddressFrame, SequenceOnFrame, UnknownLetterFrame, DriverVFrame, DriverQFrame,
     DriverMFrame, DriverZFrame, DriverWFrame, DriverUFrame, DriverBFrame, DriverIFrame,
     DriverYFrame, DriverTFrame, DriverDFrame, DriverSFrame, DriverEFrame, DriverAFrame,
     DriverFFrame, DriverJFrame, DriverLFrame, DriverXFrame, DriverNFrame, DriverGFrame,
     DriverHFrame, DriverKFrame, DriverOFrame, DriverWrapFrame, ShortVFrame, BadHexVFrame,
     BadTypeBFrame, NonUtf8VFrame, PatternQuadFrame, PatternPairFrame, TristateFrame,
     PatternZeroFrame, ShortPatternFrame, LeadingNoiseFrame, NoisyDriverVFrame,
     NestedStartFrame, TrailingGarbageFrame, TrailingBytesFrame, UnknownOp06Frame,
     UnknownOp99Frame, BadAddressFrame, BadAddressBadOpFrame, OtherAddressBadOpFrame,
     BadOpFrame, SplitAddressFrame, SignedOpFrame, SplitOpFrame, ShortControlFrame,
     WideCharsControlFrame, ShortBytesControlFrame,
     ClearClockFailFrame, ClearSwFailFrame, SequenceOffFrame, SequenceOnCalFrame,
     ZeroProgramIdFrame, SetProgramIdFrame, SetTempOkFrame, MonitorViFrame,
     GetConfigurationFrame, ShortSelfTestFrame, SelfTestMemFrame, GetFaultLogFrame, GetVersionFrame,
     GetProgramIdFrame, GetProgramIdChecksumFrame, GetViMonitorFrame, GetAmonMonitorFrame}

(***************************************************************************)
(* The simulator as a state machine: one process_command call per step.    *)
(*   sim    the Simulator                                                  *)
(*   buf    the buffer of the last call                                    *)
(*   result what the last call returned (kind "None" before the first)     *)
(*   op     the Command the last call executed, "" when it executed none   *)
(*   calls  the number of calls still to be made                           *)
(*   prev   the Simulator the last call started from, << >> before the     *)
(*          first call                                                     *)
(* A panic unwinds out of the command loop: no call follows it.            *)
(***************************************************************************)
VARIABLES sim, buf, result, op, calls, prev

vars == <<sim, buf, result, op, calls, prev>>

\* the address the simulator is constructed with
Rs485Address == 31

\* the test harness' hardware set-up of a new simulator: sim.fpgas[1].present
Configure(s, second_fpga) == [s EXCEPT !.fpgas[2].present = second_fpga]

\* the other set-up of the test harness: sim.fpgas[0].present = true
WithFirstFpga(s) == [s EXCEPT !.fpgas[1].present = TRUE]

\* and its pre-failed memory test: sim.fpgas[0].mem_a_test_ok = false
WithFailedSelfTest(s) == [s EXCEPT !.fpgas[1].mem_a_test_ok = FALSE]

NoResult == [kind |-> "None", response |-> << >>, logs |-> << >>, err |-> << >>]

\* the effect of a call on the state
Commit(r, bytes) ==
    /\ sim' = r.sim
    /\ result' = r.res
    /\ op' = r.op
    /\ buf' = bytes
    /\ calls' = calls - 1
    /\ prev' = <<sim>>

\* the command loop is running and a call is left to make
Live == calls > 0 /\ result.kind # "Panic"

\* what a call with outcome r can do: where an addition overflowed, the
\* build decides between the wrapped sum and a panic
Outcomes(r) ==
    IF r.wraps THEN {r, [RErr(r.sim, <<"Panic">>) EXCEPT !.op = r.op, !.wraps = TRUE]}
    ELSE {r}

Call(bytes) == Live /\ \E r \in Outcomes(process_command(sim, bytes)) : Commit(r, bytes)

\* no frame, or a frame of empty content
RejectFrame == Live /\ \E b \in Inputs : Route(sim, b) = "reject" /\ Call(b)

\* P or R during a pattern-load session
PatternData == Live /\ \E b \in Inputs : Route(sim, b) = "pattern" /\ Call(b)

\* one of the 23 driver letters during a driver-load session
DriverData == Live /\ \E b \in Inputs : Route(sim, b) = "driver" /\ Call(b)

\* a frame whose content starts with 'C'
ControlFrame == Live /\ \E b \in Inputs : Route(sim, b) = "control" /\ Call(b)

\* any other frame
SilentIgnore == Live /\ \E b \in Inputs : Route(sim, b) = "ignore" /\ Call(b)

Init ==
    /\ sim \in {Configure(new(Rs485Address), p) : p \in BOOLEAN}
               \cup {WithFailedSelfTest(WithFirstFpga(new(Rs485Address)))}
    /\ buf = << >>
    /\ result = NoResult
    /\ op = ""
    /\ calls = MaxCalls
    /\ prev = << >>

Next == RejectFrame \/ PatternData \/ DriverData \/ ControlFrame \/ SilentIgnore

Spec == Init /\ [][Next]_vars

(***************************************************************************)
(* Long sessions.  The states below are reached from Simulator::new by     *)
(* process_command calls only, too many to replay one by one:              *)
(*   - StartDriverFrame, then DriverRounds times DriverWrapFrame: every    *)
(*     call adds the same contribution to driver_data_checksum, sets       *)
(*     amon_test_count to 5 and leaves the one log entry of the call;      *)
(*   - StartPatternFrame, then QuadRounds (one FPGA) or PairRounds (two    *)
(*     FPGAs) times PatternZeroFrame: every call stores zero words, adds 0 *)
(*     to pattern_data_checksum and advances sram_address by 4 or by 2.    *)
(* SpecLong starts from them, so that the 32-bit accumulator is about to   *)
(* wrap and sram_address is near the end of the memory banks.              *)
(***************************************************************************)
\* k * w modulo 2^32, for k < 256
WTimesByte(k, w) == <<(w[1] * k + (w[2] * k) \div Half) % Half, (w[2] * k) % Half>>

\* 256 * w modulo 2^32
WShift8(w) == <<(w[1] * 256 + w[2] \div 256) % Half, (w[2] % 256) * 256>>

\* n * w modulo 2^32, for n < 65536
WTimes(n, w) == wrapping_add(WTimesByte(n % 256, w), WShift8(WTimesByte(n \div 256, w)))

DriverRounds == Half \div 3

QuadRounds == (MemLen \div 4) - 2

PairRounds == (MemLen \div 2) - 2

\* a simulator whose last call added to driver_data_checksum, with the sum total
WithDriverTotal(one, total) ==
    [one EXCEPT !.driver_data_checksum = total,
                !.log_buffer = <<[@[1] EXCEPT !.value = total]>>]

\* the simulator after rounds calls, given the simulator after the first of them
DriverRepeated(one, rounds) ==
    WithDriverTotal(one, WTimes(rounds, one.driver_data_checksum))

\* the simulator after the control frame that opens a session
Opened(x) == [x.sim EXCEPT !.log_buffer = << >>]

LongDriverSession ==
    DriverRepeated(
        handle_u_command(
            Opened(start_driver_config_load(update_monitored_values(new(Rs485Address)))),
            FrameContent(DriverWrapFrame)).sim,
        DriverRounds)

\* the simulator after rounds calls, given the simulator after the first of them
PatternRepeated(one, rounds) ==
    [one EXCEPT !.sram_address = 1 + rounds * (@ - 1)]

LongPatternSession(second_fpga) ==
    PatternRepeated(
        handle_p_command(
            Opened(start_pattern_load(
                update_monitored_values(Configure(new(Rs485Address), second_fpga)))),
            FrameContent(PatternZeroFrame)).sim,
        IF second_fpga THEN PairRounds ELSE QuadRounds)

InitLong ==
    /\ \/ sim = LongDriverSession /\ buf = DriverWrapFrame
       \/ sim \in {LongPatternSession(p) : p \in BOOLEAN} /\ buf = PatternZeroFrame
    /\ result = [kind |-> "Ok", response |-> << >>, logs |-> sim.log_buffer, err |-> << >>]
    /\ op = ""
    /\ calls = MaxLongCalls
    /\ prev = << >>

SpecLong == InitLong /\ [][Next]_vars


(***************************************************************************)
(* Driver sessions.  The data handlers are exercised from the state that   *)
(* process_command(StartDriverFrame) leaves of a new simulator, with the   *)
(* commands below: per handler a valid command, its boundary cases and    *)
(* the control commands that read what the handlers stored.               *)
(***************************************************************************)
\* a V command for PSU 5: <V1F0500164150140130>
DriverV5Frame ==
    <<60, 86, 49, 70, 48, 53, 48, 48, 49, 54, 52, 49, 53, 48, 49, 52, 48, 49, 51, 48, 62>>

\* a V command for PSU 6: <V1F0600264250240230>
DriverV6Frame ==
    <<60, 86, 49, 70, 48, 54, 48, 48, 50, 54, 52, 50, 53, 48, 50, 52, 48, 50, 51, 48, 62>>

\* control 05, step 1: <C1F0500000000000001>
CalStep1Frame ==
    <<60, 67, 49, 70, 48, 53, 48, 48, 48, 48, 48, 48, 48, 48, 48, 48, 48, 48, 48, 49, 62>>

\* control 05, step 3: <C1F0500000000000003>
CalStep3Frame ==
    <<60, 67, 49, 70, 48, 53, 48, 48, 48, 48, 48, 48, 48, 48, 48, 48, 48, 48, 48, 51, 62>>

\* control 05, step 4: <C1F0500000000000004>
CalStep4Frame ==
    <<60, 67, 49, 70, 48, 53, 48, 48, 48, 48, 48, 48, 48, 48, 48, 48, 48, 48, 48, 52, 62>>

\* V for PSU 0: <V1F0000064050040030>
VZeroFrame == <<60, 86, 49, 70, 48, 48, 48, 48, 48, 54, 52, 48, 53, 48, 48, 52, 48, 48, 51, 48, 62>>

\* V for PSU 7: <V1F0700164150140130>
VAboveFrame ==
    <<60, 86, 49, 70, 48, 55, 48, 48, 49, 54, 52, 49, 53, 48, 49, 52, 48, 49, 51, 48, 62>>

\* Q for PSU 0: <Q1F0000A103E80320C811>
QZeroFrame ==
    <<60, 81, 49, 70, 48, 48, 48, 48, 65, 49, 48, 51, 69, 56, 48, 51, 50, 48, 67, 56, 49, 49,
      62>>

\* Q for PSU 7: <Q1F0700A103E80320C811>
QAboveFrame ==
    <<60, 81, 49, 70, 48, 55, 48, 48, 65, 49, 48, 51, 69, 56, 48, 51, 50, 48, 67, 56, 49, 49,
      62>>

\* M for PSU 0: <M1F00005100100200300>
MZeroFrame ==
    <<60, 77, 49, 70, 48, 48, 48, 48, 53, 49, 48, 48, 49, 48, 48, 50, 48, 48, 51, 48, 48, 62>>

\* M for PSU 7: <M1F07005100100200300>
MAboveFrame ==
    <<60, 77, 49, 70, 48, 55, 48, 48, 53, 49, 48, 48, 49, 48, 48, 50, 48, 48, 51, 48, 48, 62>>

\* S for sine wave 0: <S1F001010320506400C>
SZeroFrame == <<60, 83, 49, 70, 48, 48, 49, 48, 49, 48, 51, 50, 48, 53, 48, 54, 52, 48, 48, 67, 62>>

\* S for sine wave 3: <S1F031010320506400C>
SAboveFrame ==
    <<60, 83, 49, 70, 48, 51, 49, 48, 49, 48, 51, 50, 48, 53, 48, 54, 52, 48, 48, 67, 62>>

\* L for loop 0: <L1F000A2010>
LZeroFrame == <<60, 76, 49, 70, 48, 48, 48, 65, 50, 48, 49, 48, 62>>

\* L for loop 9: <L1F090A2010>
LAboveFrame == <<60, 76, 49, 70, 48, 57, 48, 65, 50, 48, 49, 48, 62>>

\* O for group 0: <O1F0001020304>
OZeroFrame == <<60, 79, 49, 70, 48, 48, 48, 49, 48, 50, 48, 51, 48, 52, 62>>

\* O for group 17: <O1F1101020304>
OAboveFrame == <<60, 79, 49, 70, 49, 49, 48, 49, 48, 50, 48, 51, 48, 52, 62>>

\* W for test 0: <W1F000203040506070809>
WZeroFrame ==
    <<60, 87, 49, 70, 48, 48, 48, 50, 48, 51, 48, 52, 48, 53, 48, 54, 48, 55, 48, 56, 48, 57,
      62>>

\* W for test 101: <W1F650203040506070809>
WAboveFrame ==
    <<60, 87, 49, 70, 54, 53, 48, 50, 48, 51, 48, 52, 48, 53, 48, 54, 48, 55, 48, 56, 48, 57,
      62>>

\* U for test 101: <U1F6503E807D00BB805>
UAboveFrame ==
    <<60, 85, 49, 70, 54, 53, 48, 51, 69, 56, 48, 55, 68, 48, 48, 66, 66, 56, 48, 53, 62>>

\* Y for test 0: <Y1F0003E800640203>
YZeroFrame == <<60, 89, 49, 70, 48, 48, 48, 51, 69, 56, 48, 48, 54, 52, 48, 50, 48, 51, 62>>

\* Y for test 101: <Y1F6503E800640203>
YAboveFrame == <<60, 89, 49, 70, 54, 53, 48, 51, 69, 56, 48, 48, 54, 52, 48, 50, 48, 51, 62>>

\* B type 1 for test 0: <B1F100000102030405>
BZeroTestFrame == <<60, 66, 49, 70, 49, 48, 48, 48, 48, 48, 49, 48, 50, 48, 51, 48, 52, 48, 53, 62>>

\* B type 1 for test 101: <B1F165000102030405>
BAboveTestFrame ==
    <<60, 66, 49, 70, 49, 54, 53, 48, 48, 48, 49, 48, 50, 48, 51, 48, 52, 48, 53, 62>>

\* B type 0 for test 5: <B1F005000102030405>
BZeroTypeFrame == <<60, 66, 49, 70, 48, 48, 53, 48, 48, 48, 49, 48, 50, 48, 51, 48, 52, 48, 53, 62>>

\* I type 1 for test 0: <I1F10000000003F800000>
IZeroTestFrame ==
    <<60, 73, 49, 70, 49, 48, 48, 48, 48, 48, 48, 48, 48, 48, 51, 70, 56, 48, 48, 48, 48, 48,
      62>>

\* I type 1 for test 101: <I1F16500000003F800000>
IAboveTestFrame ==
    <<60, 73, 49, 70, 49, 54, 53, 48, 48, 48, 48, 48, 48, 48, 51, 70, 56, 48, 48, 48, 48, 48,
      62>>

\* I type 0 for test 1: <I1F00100000003F800000>
IZeroTypeFrame ==
    <<60, 73, 49, 70, 48, 48, 49, 48, 48, 48, 48, 48, 48, 48, 51, 70, 56, 48, 48, 48, 48, 48,
      62>>

\* I type 8 for test 1: <I1F80100000003F800000>
IAboveTypeFrame ==
    <<60, 73, 49, 70, 56, 48, 49, 48, 48, 48, 48, 48, 48, 48, 51, 70, 56, 48, 48, 48, 48, 48,
      62>>

\* I type 7 for test 1: <I1F70100000003F800000>
ILastTypeFrame ==
    <<60, 73, 49, 70, 55, 48, 49, 48, 48, 48, 48, 48, 48, 48, 51, 70, 56, 48, 48, 48, 48, 48,
      62>>

\* B type 2 for test 5: <B1F205001112131415>
BType2Frame == <<60, 66, 49, 70, 50, 48, 53, 48, 48, 49, 49, 49, 50, 49, 51, 49, 52, 49, 53, 62>>

\* B type 3 for test 5: <B1F305002122232425>
BType3Frame == <<60, 66, 49, 70, 51, 48, 53, 48, 48, 50, 49, 50, 50, 50, 51, 50, 52, 50, 53, 62>>

\* B type 4 for test 5: <B1F405003132333435>
BType4Frame == <<60, 66, 49, 70, 52, 48, 53, 48, 48, 51, 49, 51, 50, 51, 51, 51, 52, 51, 53, 62>>

\* B type 3 for test 100: <B1F3640041424344FF>
BLastTestFrame == <<60, 66, 49, 70, 51, 54, 52, 48, 48, 52, 49, 52, 50, 52, 51, 52, 52, 70, 70, 62>>

\* A with a non-zero s4 and s6 = 0: <A1F2ABC1234FF005678>
AQuirkFrame ==
    <<60, 65, 49, 70, 50, 65, 66, 67, 49, 50, 51, 52, 70, 70, 48, 48, 53, 54, 55, 56, 62>>

\* F with letters among its digits: <F1F01A1B2C3D4E5F60>
FQuirkFrame == <<60, 70, 49, 70, 48, 49, 65, 49, 66, 50, 67, 51, 68, 52, 69, 53, 70, 54, 48, 62>>

\* Q for PSU 3, gain 0, vmon 0: <Q1F0306420C8007D0FA00>
QTenthsFrame ==
    <<60, 81, 49, 70, 48, 51, 48, 54, 52, 50, 48, 67, 56, 48, 48, 55, 68, 48, 70, 65, 48, 48,
      62>>

\* Q for PSU 4, gain 2, vmon 0: <Q1F0400520FA006412C20>
QGain2Frame ==
    <<60, 81, 49, 70, 48, 52, 48, 48, 53, 50, 48, 70, 65, 48, 48, 54, 52, 49, 50, 67, 50, 48,
      62>>

\* D for PSU 6, pos_neg 0: <D1F0601F40C800190>
DPositiveFrame == <<60, 68, 49, 70, 48, 54, 48, 49, 70, 52, 48, 67, 56, 48, 48, 49, 57, 48, 62>>

\* D for psu# 7, pos_neg 1: <D1F0703E806400321>
DVoltage1Frame == <<60, 68, 49, 70, 48, 55, 48, 51, 69, 56, 48, 54, 52, 48, 48, 51, 50, 49, 62>>

\* D for psu# 8, pos_neg 0: <D1F0803E806400640>
DVoltage2Frame == <<60, 68, 49, 70, 48, 56, 48, 51, 69, 56, 48, 54, 52, 48, 48, 54, 52, 48, 62>>

\* D for psu# 9: <D1F0903E806400321>
DAboveFrame == <<60, 68, 49, 70, 48, 57, 48, 51, 69, 56, 48, 54, 52, 48, 48, 51, 50, 49, 62>>

\* D for psu# 0: <D1F0003E806400321>
DZeroFrame == <<60, 68, 49, 70, 48, 48, 48, 51, 69, 56, 48, 54, 52, 48, 48, 51, 50, 49, 62>>

\* N with bytes above 0x7F: <N1FA1B2C3D4E5F60718>
NHighFrame == <<60, 78, 49, 70, 65, 49, 66, 50, 67, 51, 68, 52, 69, 53, 70, 54, 48, 55, 49, 56, 62>>

\* K with digits above 9: <K1FFEDCBA98>
KHighFrame == <<60, 75, 49, 70, 70, 69, 68, 67, 66, 65, 57, 56, 62>>

\* T with alarms 0x10, 0x20, 0x40, 0x80, 0xFF reversed: <T1FFF804020100A0501>
THighFrame == <<60, 84, 49, 70, 70, 70, 56, 48, 52, 48, 50, 48, 49, 48, 48, 65, 48, 53, 48, 49, 62>>

DriverInputs ==
    {DriverVFrame, SequenceOnCalFrame, DriverQFrame, DriverMFrame, DriverWFrame, DriverUFrame,
     DriverYFrame, DriverSFrame, DriverLFrame, DriverOFrame, DriverWrapFrame, DriverBFrame,
     DriverIFrame, BadTypeBFrame, DriverAFrame, DriverFFrame, DriverDFrame, DriverNFrame,
     DriverGFrame, DriverHFrame, DriverKFrame, MonitorViFrame, DriverTFrame, SetProgramIdFrame,
     DriverV5Frame, DriverV6Frame, CalStep1Frame, CalStep3Frame, CalStep4Frame, VZeroFrame,
     VAboveFrame, QZeroFrame, QAboveFrame, MZeroFrame, MAboveFrame, SZeroFrame, SAboveFrame,
     LZeroFrame, LAboveFrame, OZeroFrame, OAboveFrame, WZeroFrame, WAboveFrame, UAboveFrame,
     YZeroFrame, YAboveFrame, BZeroTestFrame, BAboveTestFrame, BZeroTypeFrame, IZeroTestFrame,
     IAboveTestFrame, IZeroTypeFrame, IAboveTypeFrame, ILastTypeFrame, BType2Frame,
     BType3Frame, BType4Frame, BLastTestFrame, AQuirkFrame, FQuirkFrame, QTenthsFrame,
     QGain2Frame, DPositiveFrame, DVoltage1Frame, DVoltage2Frame, DAboveFrame, DZeroFrame,
     NHighFrame, KHighFrame, THighFrame}

\* the number of calls made in a driver session
MaxDriverCalls == 2

\* the backplane fields of the set-up of tests::process_command_18_get_configuration
WithBackplane(s) ==
    [s EXCEPT !.back_panel_address = 10,
              !.bib_code = 2748,
              !.bp_res1_present = TRUE,
              !.bp_res2_present = FALSE]

\* the simulators a session starts on
DriverSetups == {new(Rs485Address), WithBackplane(new(Rs485Address))}

\* the call of process_command(StartDriverFrame) on simulator s
DriverSessionStart(s) == process_command(s, StartDriverFrame)

\* a driver letter of the session
DriverCommand == Live /\ \E b \in DriverInputs : Route(sim, b) = "driver" /\ Call(b)

\* a control frame during the session
DriverControl == Live /\ \E b \in DriverInputs : Route(sim, b) = "control" /\ Call(b)

InitDriver ==
    \E s \in DriverSetups :
        /\ sim = DriverSessionStart(s).sim
        /\ buf = StartDriverFrame
        /\ result = DriverSessionStart(s).res
        /\ op = DriverSessionStart(s).op
        /\ calls = MaxDriverCalls
    /\ prev = << >>

NextDriver == DriverCommand \/ DriverControl

SpecDriver == InitDriver /\ [][NextDriver]_vars

(***************************************************************************)
(* Monitoring.  The monitor strings are read during a driver session      *)
(* after the commands that change what they report: PSU steps, limits and  *)
(* calibration, the sequence operations and the AMON tests.                *)
(***************************************************************************)
\* V for PSU 2 with steps 0x400, 0x800, 0xC00, 0xFFF: <V1F0200FFFC00800400>
VHighFrame ==
    <<60, 86, 49, 70, 48, 50, 48, 48, 70, 70, 70, 67, 48, 48, 56, 48, 48, 52, 48, 48, 62>>

\* D for PSU 3, current limit 0: <D1F0303E800000000>
DLowLimitFrame == <<60, 68, 49, 70, 48, 51, 48, 51, 69, 56, 48, 48, 48, 48, 48, 48, 48, 48, 62>>

\* U with a test count of 200: <U1F0103E807D00BB8C8>
UCountHighFrame ==
    <<60, 85, 49, 70, 48, 49, 48, 51, 69, 56, 48, 55, 68, 48, 48, 66, 66, 56, 67, 56, 62>>

\* U with a test count of 100: <U1F0103E807D00BB864>
ULastCountFrame ==
    <<60, 85, 49, 70, 48, 49, 48, 51, 69, 56, 48, 55, 68, 48, 48, 66, 66, 56, 54, 52, 62>>

MonitorInputs ==
    {VHighFrame, DriverV5Frame, DriverQFrame, QTenthsFrame, DLowLimitFrame, DriverDFrame,
     CalStep1Frame, CalStep4Frame, SequenceOnFrame, SequenceOffFrame, SetTempOkFrame,
     GetViMonitorFrame, DriverUFrame, UCountHighFrame, ULastCountFrame, DriverBFrame,
     BType2Frame, BType3Frame, DriverIFrame, GetAmonMonitorFrame}

\* the number of calls made before and with a monitor read
MaxMonitorCalls == 3

\* a driver letter that changes what the monitor strings report
MonitorCommand == Live /\ \E b \in MonitorInputs : Route(sim, b) = "driver" /\ Call(b)

\* a sequence operation or a monitor read
MonitorControl == Live /\ \E b \in MonitorInputs : Route(sim, b) = "control" /\ Call(b)

InitMonitor ==
    /\ sim = DriverSessionStart(new(Rs485Address)).sim
    /\ buf = StartDriverFrame
    /\ result = DriverSessionStart(new(Rs485Address)).res
    /\ op = DriverSessionStart(new(Rs485Address)).op
    /\ calls = MaxMonitorCalls
    /\ prev = << >>

NextMonitor == MonitorCommand \/ MonitorControl

SpecMonitor == InitMonitor /\ [][NextMonitor]_vars

(***************************************************************************)
(* Properties.                                                             *)
(* A state reached by a step of Next is the outcome of one call of        *)
(* process_command: buf is the buffer of the call, result what it         *)
(* returned, op the Command it executed, sim the simulator after it and   *)
(* pre the simulator before it.                                           *)
(***************************************************************************)
\* a call has been made
Stepped == prev # << >>

pre == prev[1]

\* the value of a string of hexadecimal digits, -1 if a byte is no digit
RECURSIVE HexValue(_)
HexValue(str) ==
    IF str = << >> THEN 0
    ELSE LET d == to_digit(str[Len(str)], 16)
             rest == HexValue(SubSeq(str, 1, Len(str) - 1))
         IN  IF d < 0 \/ rest < 0 THEN -1 ELSE 16 * rest + d

\* the buffer holds a frame <...> of non-empty content
Framed(b) == HasFrame(b) /\ FrameContent(b) # << >>

\* the first content byte of a framed buffer
Letter(b) == FrameContent(b)[1]

SessionOps ==
    {"StartPatternLoad", "EndPatternLoad", "StartDriverConfigLoad", "EndDriverConfigLoad"}

\* C1: in every state reachable from Simulator::new by process_command
\* calls, is_pattern_data_loading and is_driver_data_loading are never both
\* true.
C1_OneSessionAtMost == ~(sim.is_pattern_data_loading /\ sim.is_driver_data_loading)

\* a pattern session opened while a driver session held data
C1_Witness ==
    /\ op = "StartPatternLoad"
    /\ sim.is_pattern_data_loading
    /\ ~sim.is_driver_data_loading
    /\ sim.driver_data_checksum # WZero

\* a buffer <C<addr>...> whose two address digits name another device than s
OtherAddress(s, b) ==
    /\ Framed(b)
    /\ Letter(b) = 67
    /\ Len(FrameContent(b)) >= 3
    /\ HexValue(SubSeq(FrameContent(b), 2, 3)) >= 0
    /\ HexValue(SubSeq(FrameContent(b), 2, 3)) # s.rs485_address

\* C2 as stated: a control frame for another address returns Ok with no
\* response and leaves the simulator equal to what it was before the call.
C2_OtherAddressNoChange ==
    Stepped =>
      (OtherAddress(pre, buf)
       => /\ result.kind = "Ok"
          /\ result.response = << >>
          /\ sim = pre)

\* C2, amended: a control frame for another address whose content is valid
\* UTF-8 of at least five bytes returns Ok with no response and no logs, and
\* changes no field but log_buffer, which the call empties.
C2_OtherAddressIgnored ==
    Stepped =>
      ((/\ OtherAddress(pre, buf)
        /\ Len(FrameContent(buf)) >= 5
        /\ from_utf8_ok(FrameContent(buf)))
       => /\ result.kind = "Ok"
          /\ result.response = << >>
          /\ result.logs = << >>
          /\ sim = [pre EXCEPT !.log_buffer = << >>])

\* a frame for another address was ignored during a driver session with data
C2_Witness ==
    /\ OtherAddress(sim, buf)
    /\ Len(FrameContent(buf)) >= 5
    /\ result.kind = "Ok"
    /\ result.response = << >>
    /\ sim.is_driver_data_loading
    /\ sim.driver_data_checksum # WZero

(***************************************************************************)
(* The checksum contributions as the specification tabulates them: for     *)
(* each driver letter the character windows (0-based, half open) whose     *)
(* hexadecimal values are summed, and for I and F the span of characters   *)
(* whose digit values are summed one by one.                               *)
(***************************************************************************)
\* n windows of w characters each, from offset a
Windows(a, w, n) == [i \in 1..n |-> <<a + w * (i - 1), a + w * i>>]

TableWindows(letter) ==
    CASE letter = 86 -> <<<<3, 5>>, <<5, 7>>, <<7, 10>>, <<10, 13>>, <<13, 16>>, <<16, 19>>>>
      [] letter = 81 -> <<<<3, 5>>, <<5, 8>>, <<8, 9>>, <<9, 13>>, <<13, 16>>, <<16, 19>>>>
      [] letter = 77 -> <<<<3, 5>>, <<5, 8>>, <<8, 9>>, <<9, 13>>, <<13, 16>>, <<16, 19>>>>
      [] letter = 90 -> <<<<3, 5>>, <<5, 9>>, <<9, 13>>, <<13, 15>>>>
      [] letter = 87 -> Windows(3, 2, 9)
      [] letter = 85 -> <<<<3, 5>>, <<5, 9>>, <<9, 13>>, <<13, 17>>, <<17, 19>>>>
      [] letter = 66 -> <<<<3, 4>>, <<4, 6>>>> \o Windows(8, 2, 5)
      [] letter = 73 -> <<<<3, 4>>, <<4, 6>>>>
      [] letter = 89 -> <<<<3, 5>>, <<5, 9>>, <<9, 13>>, <<13, 15>>, <<15, 17>>>>
      [] letter = 84 -> Windows(3, 2, 8)
      [] letter = 68 -> <<<<3, 5>>, <<5, 9>>, <<9, 12>>, <<12, 16>>, <<16, 17>>>>
      [] letter = 83 -> <<<<3, 5>>, <<5, 6>>, <<6, 7>>, <<7, 9>>, <<9, 11>>, <<11, 13>>,
                          <<13, 16>>, <<16, 19>>>>
      [] letter = 69 -> <<<<3, 7>>, <<7, 9>>, <<9, 11>>, <<11, 13>>, <<13, 15>>, <<15, 16>>,
                          <<16, 17>>, <<17, 18>>, <<18, 19>>>>
      [] letter = 65 -> <<<<7, 11>>, <<4, 7>>, <<3, 4>>, <<15, 19>>, <<14, 15>>, <<17, 19>>>>
      [] letter = 70 -> << >>
      [] letter = 74 -> <<<<3, 4>>, <<4, 5>>>> \o Windows(5, 2, 6)
      [] letter = 76 -> Windows(3, 2, 4)
      [] letter = 88 -> <<<<3, 5>>, <<5, 7>>, <<7, 9>>, <<9, 11>>, <<11, 12>>, <<12, 14>>>>
      [] letter \in {78, 71, 72} -> Windows(3, 2, 8)
      [] letter = 75 -> Windows(3, 1, 8)
      [] letter = 79 -> Windows(3, 2, 5)

\* the characters counted digit by digit
TableDigits(letter) ==
    CASE letter = 73 -> Windows(13, 1, 8)
      [] letter = 70 -> Windows(3, 1, 15)
      [] OTHER -> << >>

RECURSIVE WindowSum(_, _)
WindowSum(c, wins) ==
    IF wins = << >> THEN 0
    ELSE HexValue(Slice(c, wins[1][1], wins[1][2])) + WindowSum(c, Tail(wins))

\* the contribution of the driver data command of content c
TableContribution(c) == WindowSum(c, TableWindows(c[1])) + WindowSum(c, TableDigits(c[1]))

\* the contribution of a P/R command: the control bytes and all data bytes,
\* two quartets of data when both FPGAs are present, four words otherwise
TablePatternContribution(second_fpga, c) ==
    SumSeq(SubSeq(c, 2, IF second_fpga THEN 19 ELSE 21))

\* the call of buffer b is a driver data command in state s
DriverDataOf(s, b) == Framed(b) /\ s.is_driver_data_loading /\ Letter(b) \in DriverLetters

\* the call of buffer b is a pattern data command in state s
PatternDataOf(s, b) == Framed(b) /\ s.is_pattern_data_loading /\ Letter(b) \in PatternLetters

\* the call of buffer b is a control frame in state s
ControlOf(s, b) == Framed(b) /\ Letter(b) = 67 /\ ~DriverDataOf(s, b) /\ ~PatternDataOf(s, b)

Text174764 == <<35, 49, 55, 52, 55, 54, 52, 35>>

\* C3: after C50 sub-02, for any sequence of driver data commands that each
\* return Ok, possibly interleaved with control commands other than op 50,
\* the C50 sub-03 response is #N# with N the sum modulo 2^32 of the
\* contributions of the table.  Step by step: sub-02 leaves the sum at 0,
\* each accepted driver data command adds its contribution modulo 2^32, a
\* control command other than op 50 leaves the sum alone, and sub-03 answers
\* with the sum in decimal between two '#'.
C3_DriverChecksumRoundTrip ==
    Stepped =>
      (/\ op = "StartDriverConfigLoad" => sim.driver_data_checksum = WZero
       /\ (DriverDataOf(pre, buf) /\ result.kind = "Ok")
          => sim.driver_data_checksum =
                 wrapping_add(pre.driver_data_checksum,
                              W(TableContribution(FrameContent(buf))))
       /\ (ControlOf(pre, buf) /\ op \notin SessionOps)
          => sim.driver_data_checksum = pre.driver_data_checksum
       /\ op = "EndDriverConfigLoad"
          => result.response = <<Hash \o WToDec(pre.driver_data_checksum) \o Hash>>)

\* the sum wrapped past 2^32 in a long session, and sub-03 reported it
C3_Witness ==
    /\ op = "EndDriverConfigLoad"
    /\ result.response = <<Text174764>>
    /\ sim.driver_data_checksum = W(174764)

Text0 == <<35, 48, 35>>

\* C4: from any reachable state C50 sub-02 resets driver_data_checksum to
\* 0, and a C50 sub-03 that follows it immediately returns #0#, whatever
\* earlier sessions accumulated.
C4_StartResetsDriverChecksum ==
    Stepped =>
      (/\ op = "StartDriverConfigLoad" => sim.driver_data_checksum = WZero
       /\ op = "StartDriverConfigLoad"
          => process_command(sim, EndDriverFrame).res.response = <<Text0>>)

\* C50 sub-02 on a simulator that an earlier session of U commands had left
\* with amon_test_count = 5 and a checksum that is not 0
C4_Witness ==
    /\ Stepped
    /\ op = "StartDriverConfigLoad"
    /\ pre.amon_test_count = 5
    /\ pre.driver_data_checksum # WZero
    /\ sim.amon_test_count = 5

\* C5: after C50 sub-00, any sequence of valid P/R commands and C50 sub-01,
\* the response is #<checksum>,<address>,# with checksum the sum modulo 2^32
\* of the contributions and address 1 + 2n (fpgas[1].present) or 1 + 4n for
\* n commands.  Step by step: sub-00 leaves the sum at 0 and the address at
\* 1, each accepted P/R command adds its contribution and 2 or 4 to the
\* address, and sub-01 answers with both in decimal.
C5_PatternRoundTrip ==
    Stepped =>
      (/\ op = "StartPatternLoad"
          => sim.pattern_data_checksum = WZero /\ sim.sram_address = 1
       /\ (PatternDataOf(pre, buf) /\ result.kind = "Ok")
          => /\ sim.pattern_data_checksum =
                    wrapping_add(pre.pattern_data_checksum,
                                 W(TablePatternContribution(pre.fpgas[2].present,
                                                            FrameContent(buf))))
             /\ sim.sram_address =
                    pre.sram_address + (IF pre.fpgas[2].present THEN 2 ELSE 4)
       /\ op = "EndPatternLoad"
          => result.response =
                 <<Hash \o WToDec(pre.pattern_data_checksum) \o Comma
                   \o ToDec(pre.sram_address) \o Comma \o Hash>>)

\* sub-01 reported one command with a non-zero contribution, on one FPGA
C5_Witness ==
    /\ op = "EndPatternLoad"
    /\ ~sim.fpgas[2].present
    /\ sim.sram_address = 5
    /\ sim.pattern_data_checksum # WZero
    /\ result.response =
           <<Hash \o WToDec(sim.pattern_data_checksum) \o <<44, 53, 44>> \o Hash>>

\* the last call was a P/R command of a pattern session that did not return:
\* a store was refused at index sim.sram_address
PatternStoreRefused ==
    /\ result.kind = "Panic"
    /\ Framed(buf)
    /\ Letter(buf) \in PatternLetters
    /\ sim.is_pattern_data_loading

\* C6: in every reachable state sram_address >= 1, and every store of a P
\* or R command uses an index strictly below the memory length 0x100000.
C6_WritesInBounds ==
    /\ sim.sram_address >= 1
    /\ PatternStoreRefused => sim.sram_address < MemLen

\* C7 as stated: is_pattern_data_loading and is_driver_data_loading go from
\* true to false only when C50 sub-01 or sub-03 is executed.
C7_OnlyEndCommandsClose ==
    Stepped =>
      (((pre.is_pattern_data_loading /\ ~sim.is_pattern_data_loading)
        \/ (pre.is_driver_data_loading /\ ~sim.is_driver_data_loading))
       => op \in {"EndPatternLoad", "EndDriverConfigLoad"})

\* C7, amended: is_pattern_data_loading goes from true to false only when
\* C50 sub-01 or sub-02 is executed, and is_driver_data_loading only when
\* C50 sub-03 or sub-00 is executed: starting one session closes the other.
C7_OnlySessionCommandsClose ==
    Stepped =>
      (/\ (pre.is_pattern_data_loading /\ ~sim.is_pattern_data_loading)
          => op \in {"EndPatternLoad", "StartDriverConfigLoad"}
       /\ (pre.is_driver_data_loading /\ ~sim.is_driver_data_loading)
          => op \in {"EndDriverConfigLoad", "StartPatternLoad"})

\* a driver session that had accumulated data was closed by sub-03
C7_Witness ==
    /\ op = "EndDriverConfigLoad"
    /\ ~sim.is_driver_data_loading
    /\ ~sim.is_pattern_data_loading
    /\ sim.driver_data_checksum # WZero

\* the last call was a data command of an active session that failed
DataCommandFailed ==
    /\ result.kind = "Err"
    /\ result.err \in {<<"TooShort">>, <<"InvalidParameter">>}
    /\ DriverDataOf(sim, buf) \/ PatternDataOf(sim, buf)

\* the last call was a data command of a session of pre that failed
FailedInSession ==
    /\ result.kind = "Err"
    /\ result.err \in {<<"TooShort">>, <<"InvalidParameter">>}
    /\ DriverDataOf(pre, buf) \/ PatternDataOf(pre, buf)

\* buffer b is a valid data command of the session that was active before
\* the failure: a data command of pre that pre accepts
ValidInSession(b) ==
    /\ DriverDataOf(pre, b) \/ PatternDataOf(pre, b)
    /\ process_command(pre, b).res.kind = "Ok"

\* outcome r of buffer b, called on the simulator the failure left, is an
\* accepted data command: no response, both session flags as before the
\* failure, and the contribution of the table added to the checksum of the
\* session
AcceptedAfterFailure(b, r) ==
    /\ r.res.kind = "Ok"
    /\ r.res.response = << >>
    /\ r.sim.is_pattern_data_loading = pre.is_pattern_data_loading
    /\ r.sim.is_driver_data_loading = pre.is_driver_data_loading
    /\ DriverDataOf(pre, b)
       => r.sim.driver_data_checksum =
              wrapping_add(sim.driver_data_checksum, W(TableContribution(FrameContent(b))))
    /\ PatternDataOf(pre, b)
       => r.sim.pattern_data_checksum =
              wrapping_add(sim.pattern_data_checksum,
                           W(TablePatternContribution(sim.fpgas[2].present, FrameContent(b))))

\* C8: a data command that fails with TooShort or InvalidParameter during a
\* load session leaves is_pattern_data_loading and is_driver_data_loading
\* unchanged, and every valid data command of that session, called after the
\* failure, is accepted and accumulated.
C8_FailedDataKeepsSession ==
    Stepped =>
      (/\ ((DriverDataOf(pre, buf) \/ PatternDataOf(pre, buf)) /\ result.kind = "Err")
          => /\ result.err \in {<<"TooShort">>, <<"InvalidParameter">>}
             /\ sim.is_pattern_data_loading = pre.is_pattern_data_loading
             /\ sim.is_driver_data_loading = pre.is_driver_data_loading
       /\ FailedInSession
          => \A b \in {x \in Inputs : ValidInSession(x)} :
                 \A r \in {process_command(sim, b)} : AcceptedAfterFailure(b, r))

\* a driver data command was refused for a bad digit, the session is still
\* open, and the V command called next is accepted and adds its fields to
\* the checksum
C8_Witness ==
    /\ DataCommandFailed
    /\ result.err = <<"InvalidParameter">>
    /\ Letter(buf) \in DriverLetters
    /\ sim.is_driver_data_loading
    /\ ValidInSession(DriverVFrame)
    /\ process_command(sim, DriverVFrame).res.kind = "Ok"
    /\ process_command(sim, DriverVFrame).sim.driver_data_checksum # sim.driver_data_checksum

\* the frames of C9: P or R outside a pattern session, a driver letter
\* outside a driver session, or a byte that is no data letter and not 'C'
Undispatched(s, b) ==
    /\ Framed(b)
    /\ \/ Letter(b) \in PatternLetters /\ ~s.is_pattern_data_loading
       \/ Letter(b) \in DriverLetters /\ ~s.is_driver_data_loading
       \/ Letter(b) \notin PatternLetters \cup DriverLetters \cup {67}

\* C9 as stated: such a frame returns Ok with no response and empty logs and
\* changes no simulator field.
C9_UndispatchedNoChange ==
    Stepped =>
      (Undispatched(pre, buf)
       => /\ result.kind = "Ok"
          /\ result.response = << >>
          /\ result.logs = << >>
          /\ sim = pre)

\* C9, amended: such a frame returns Ok with no response and empty logs and
\* changes no simulator field but log_buffer, which the call empties.
C9_UndispatchedIgnored ==
    Stepped =>
      (Undispatched(pre, buf)
       => /\ result.kind = "Ok"
          /\ result.response = << >>
          /\ result.logs = << >>
          /\ sim = [pre EXCEPT !.log_buffer = << >>])

\* a P or R frame was ignored during a driver session with data
C9_Witness ==
    /\ Framed(buf)
    /\ Letter(buf) \in PatternLetters
    /\ sim.is_driver_data_loading
    /\ sim.driver_data_checksum # WZero
    /\ result.kind = "Ok"
    /\ result.logs = << >>

\* the positions of byte x in buffer b
Places(b, x) == {i \in 1..Len(b) : b[i] = x}

\* no '<', or no '>', or the last '>' before the first '<'
Unframed(b) ==
    \/ Places(b, 60) = {}
    \/ Places(b, 62) = {}
    \/ \A i \in Places(b, 60), j \in Places(b, 62) : j < i

\* C10: for a buffer with no '<', or no '>', or whose last '>' lies before
\* its first '<', process_command returns InvalidFrame, in every session
\* mode.
C10_UnframedRejected ==
    (result.kind # "None" /\ Unframed(buf))
    => (result.kind = "Err" /\ result.err = <<"InvalidFrame">>)

\* a buffer with '>' before '<' was rejected during a driver session
C10_Witness ==
    /\ result.err = <<"InvalidFrame">>
    /\ Places(buf, 60) # {}
    /\ Places(buf, 62) # {}
    /\ sim.is_driver_data_loading
    /\ sim.driver_data_checksum # WZero


\* the least and the greatest of a non-empty set of positions
FirstOf(S) == CHOOSE i \in S : \A j \in S : i <= j

LastOf(S) == CHOOSE i \in S : \A j \in S : j <= i

\* the bytes strictly between the first '<' and the last '>' of a buffer
\* that has both in this order
Between(b) ==
    [k \in 1..(LastOf(Places(b, 62)) - FirstOf(Places(b, 60)) - 1) |->
        b[FirstOf(Places(b, 60)) + k]]

\* the frame of buffer b with nothing before and nothing after it
BareFrame(b) == <<60>> \o Between(b) \o <<62>>

\* C11: the content process_command works on is the sequence of bytes
\* strictly between the first '<' and the last '>' of the buffer; the bytes
\* before the first '<' and after the last '>' influence neither the result
\* nor the state after the call: the call returns what the call of the bare
\* frame returns in the same state and leaves the same simulator.
C11_FrameAloneDecides ==
    Stepped =>
      (~Unframed(buf) =>
         /\ FrameContent(buf) = Between(buf)
         /\ buf # BareFrame(buf) =>
                LET bare == process_command(pre, BareFrame(buf))
                IN  result = bare.res /\ sim = bare.sim)

\* a V command between leading and trailing bytes was applied in a driver
\* session
C11_Witness ==
    /\ buf = NoisyDriverVFrame
    /\ buf # BareFrame(buf)
    /\ result.kind = "Ok"
    /\ result.logs # << >>
    /\ sim.driver_data_checksum # WZero

\* the position of the first '>' behind the first '<' of a framed buffer
FirstEnd(b) == FirstOf({j \in Places(b, 62) : j > FirstOf(Places(b, 60))})

\* the buffer up to its first frame end, and the bytes that follow it
OwnFrame(b) == SubSeq(b, 1, FirstEnd(b))

Trailing(b) == SubSeq(b, FirstEnd(b) + 1, Len(b))

\* buffer b is a control frame followed by trailing bytes, and the frame
\* alone is accepted in state s
AcceptedWithTrailing(s, b) ==
    /\ ~Unframed(b)
    /\ Trailing(b) # << >>
    /\ Between(OwnFrame(b)) # << >>
    /\ Between(OwnFrame(b))[1] = 67
    /\ process_command(s, OwnFrame(b)).res.kind = "Ok"

\* the call of the frame alone and the call with the trailing bytes agree
SameAsOwnFrame ==
    LET own == process_command(pre, OwnFrame(buf))
    IN  result = own.res /\ sim = own.sim

\* C12 as stated: a control frame accepted on its own gives the same response
\* and the same state when arbitrary bytes follow it.
C12_TrailingBytesIgnored ==
    Stepped =>
      (AcceptedWithTrailing(pre, buf) => SameAsOwnFrame)

\* C12: a control frame accepted on its own gives the same response and the
\* same state when bytes follow it, '>' bytes included, provided the bytes
\* between the first '<' and the last '>' of the whole buffer are valid
\* UTF-8.
C12_TrailingTextIgnored ==
    Stepped =>
      ((AcceptedWithTrailing(pre, buf) /\ from_utf8_ok(Between(buf)))
         => SameAsOwnFrame)

\* control 03 followed by ">>garbage" switched the sequence on
C12_Witness ==
    /\ buf = TrailingGarbageFrame
    /\ Trailing(buf) # << >>
    /\ Places(Trailing(buf), 62) # {}
    /\ result.kind = "Ok"
    /\ result.response = <<StrON>>
    /\ sim.sequence_on

\* the value of a string of decimal digits, -1 when a character is no digit
RECURSIVE DecValue(_)
DecValue(str) ==
    IF str = << >> THEN 0
    ELSE LET rest == DecValue(SubSeq(str, 1, Len(str) - 1))
         IN  IF str[Len(str)] \notin 48..57 \/ rest < 0 THEN -1
             ELSE 10 * rest + (str[Len(str)] - 48)

SupportedOps == {1, 2, 3, 4, 5, 9, 16, 17, 18, 19, 20, 21, 22, 23, 24, 25, 50}

\* buffer b is a control frame of valid UTF-8 addressed to simulator s, with
\* a header of two address and two operation characters
Addressed(s, b) ==
    /\ ~Unframed(b)
    /\ Len(Between(b)) >= 5
    /\ Between(b)[1] = 67
    /\ from_utf8_ok(Between(b))
    /\ HexValue(SubSeq(Between(b), 2, 3)) = s.rs485_address

\* the two operation characters of a control frame as a decimal number
OpId(b) == DecValue(SubSeq(Between(b), 4, 5))

\* C13: a control frame addressed to this simulator whose two decimal
\* operation digits name no supported operation returns
\* UnimplementedCommand(id); no PSU, configuration, checksum or session field
\* changes (nothing but log_buffer, which the call empties).
C13_UnknownOperationRejected ==
    Stepped =>
      ((Addressed(pre, buf) /\ OpId(buf) >= 0 /\ OpId(buf) \notin SupportedOps)
         => /\ result.kind = "Err"
            /\ result.err = <<"UnimplementedCommand", OpId(buf)>>
            /\ sim = [pre EXCEPT !.log_buffer = << >>])

\* operation 06 was refused during a driver session with data
C13_Witness ==
    /\ buf = UnknownOp06Frame
    /\ result.err = <<"UnimplementedCommand", 6>>
    /\ sim.is_driver_data_loading
    /\ sim.driver_data_checksum # WZero

\* buffer b is a frame whose content starts with 'C' and has 5 bytes or more
ControlHeader(b) ==
    /\ ~Unframed(b)
    /\ Len(Between(b)) >= 5
    /\ Between(b)[1] = 67

\* the two address characters of a control frame as a hexadecimal number
AddressOf(b) == HexValue(SubSeq(Between(b), 2, 3))

\* C14: for a content that starts with 'C' and has length 5 or more, an
\* address that is not hexadecimal returns InvalidAddress; otherwise an
\* address other than rs485_address is ignored without a response; otherwise
\* an operation ID that is not decimal returns InvalidCommandId; in this
\* order and in every session mode.
C14_HeaderDecodingOrder ==
    Stepped =>
      (ControlHeader(buf) =>
         /\ AddressOf(buf) < 0
              => (result.kind = "Err" /\ result.err = <<"InvalidAddress">>)
         /\ (AddressOf(buf) >= 0 /\ AddressOf(buf) # pre.rs485_address)
              => (result.kind = "Ok" /\ result.response = << >>)
         /\ (AddressOf(buf) = pre.rs485_address /\ OpId(buf) < 0)
              => (result.kind = "Err" /\ result.err = <<"InvalidCommandId">>))

\* the number of characters of a UTF-8 text: its bytes that start one
Chars(c) == Cardinality({i \in 1..Len(c) : c[i] \notin 128..191})

\* C15 as stated: the empty content, and every content that starts with 'C'
\* and has fewer than 5 characters, fails with TooShort and leaves the state
\* unchanged.
C15_TooShortNoChange ==
    Stepped =>
      ((~Unframed(buf)
        /\ (Between(buf) = << >> \/ (Between(buf)[1] = 67 /\ Chars(Between(buf)) < 5)))
         => (result.kind = "Err" /\ result.err = <<"TooShort">> /\ sim = pre))

\* C15: the empty content, and every content of valid UTF-8 that starts with
\* 'C' and has fewer than 5 bytes, fails with TooShort whatever its address,
\* and changes nothing but log_buffer, which the call empties.
C15_TooShortRejected ==
    Stepped =>
      ((~Unframed(buf)
        /\ \/ Between(buf) = << >>
           \/ /\ Between(buf)[1] = 67
              /\ Len(Between(buf)) < 5
              /\ from_utf8_ok(Between(buf)))
         => /\ result.kind = "Err"
            /\ result.err = <<"TooShort">>
            /\ sim = [pre EXCEPT !.log_buffer = << >>])

\* a control frame of 4 content bytes for another address was refused during
\* a driver session with data
C15_Witness ==
    /\ buf = ShortOtherAddressFrame
    /\ Len(Between(buf)) = 4
    /\ result.err = <<"TooShort">>
    /\ sim.is_driver_data_loading
    /\ sim.driver_data_checksum # WZero

\* the call of buffer b in state s is a data command: P or R during a
\* pattern session, a driver letter during a driver session
DataLetterCall(s, b) ==
    /\ ~Unframed(b)
    /\ Between(b) # << >>
    /\ \/ s.is_pattern_data_loading /\ Between(b)[1] \in PatternLetters
       \/ s.is_driver_data_loading /\ Between(b)[1] \in DriverLetters

\* a present response whose text begins and ends with '#'
HashFramed(response) ==
    /\ Len(response) = 1
    /\ Len(response[1]) >= 2
    /\ response[1][1] = 35
    /\ response[1][Len(response[1])] = 35

\* C16: every control frame addressed to this simulator that is accepted
\* returns a present response that begins with '#' and ends with '#'; every
\* data command (P, R and the driver letters) returns no response.
C16_ResponseShape ==
    Stepped =>
      (/\ (Addressed(pre, buf) /\ result.kind = "Ok") => HashFramed(result.response)
       /\ DataLetterCall(pre, buf) => result.response = << >>)

\* the VI monitor string was returned during a driver session with data
C16_Witness ==
    /\ buf = GetViMonitorFrame
    /\ result.kind = "Ok"
    /\ HashFramed(result.response)
    /\ Len(result.response[1]) > 2
    /\ sim.is_driver_data_loading
    /\ sim.driver_data_checksum # WZero

\* the call of buffer b in state s is a B command of valid UTF-8 and full
\* length whose test number lies in 1..100 and whose cmd_type parses but is
\* none of 1..4
BadTypeB(s, b) ==
    /\ DataLetterCall(s, b)
    /\ Between(b)[1] = 66
    /\ from_utf8_ok(Between(b))
    /\ Len(Between(b)) >= 18
    /\ HexValue(SubSeq(Between(b), 4, 4)) >= 0
    /\ HexValue(SubSeq(Between(b), 4, 4)) \notin 1..4
    /\ HexValue(SubSeq(Between(b), 5, 6)) \in 1..NumAmonTests

\* C17: errors do not roll back the state.  A B command with a test number
\* in 1..100 and a cmd_type outside 1..4 fails with InvalidParameter, and
\* after the call amon_test_count equals that test number.
C17_FailedBKeepsTestCount ==
    Stepped =>
      (BadTypeB(pre, buf) =>
         /\ result.kind = "Err"
         /\ result.err = <<"InvalidParameter">>
         /\ sim.amon_test_count = HexValue(SubSeq(Between(buf), 5, 6)))

\* the B command of cmd_type 5 for test 7 failed and left amon_test_count 7
C17_Witness ==
    /\ buf = BadTypeBFrame
    /\ result.err = <<"InvalidParameter">>
    /\ sim.is_driver_data_loading
    /\ sim.amon_test_count = 7

\* the one log entry of a successful data command in state s: the kind of
\* checksum, the contribution N of the content and the new checksum M
ChecksumEntry(s, b) ==
    IF Between(b)[1] \in PatternLetters
    THEN [kind |-> "Pattern",
          by |-> TablePatternContribution(s.fpgas[2].present, Between(b)),
          value |-> wrapping_add(s.pattern_data_checksum,
                                 W(TablePatternContribution(s.fpgas[2].present, Between(b))))]
    ELSE [kind |-> "Driver",
          by |-> TableContribution(Between(b)),
          value |-> wrapping_add(s.driver_data_checksum, W(TableContribution(Between(b))))]

\* C18: the logs a process_command call returns hold only entries of that
\* call: exactly one checksum-update entry, with the contribution N and the
\* new checksum M, for a successfully handled data command, and no entry for
\* a control command or a silently ignored frame.
C18_LogsOfThisCall ==
    Stepped =>
      (/\ (DataLetterCall(pre, buf) /\ result.kind = "Ok")
          => result.logs = <<ChecksumEntry(pre, buf)>>
       /\ (~DataLetterCall(pre, buf) /\ result.kind = "Ok")
          => result.logs = << >>)

\* a driver command returned its one entry although the session's checksum
\* holds more than its contribution
C18_Witness ==
    /\ DataLetterCall(sim, buf)
    /\ result.kind = "Ok"
    /\ Len(result.logs) = 1
    /\ result.logs[1].value = sim.driver_data_checksum
    /\ sim.driver_data_checksum # W(result.logs[1].by)

\* the two 5 character decimal fields of a C09 content
ProgramIdFields(b) ==
    <<DecValue(SubSeq(Between(b), 10, 14)), DecValue(SubSeq(Between(b), 15, 19))>>

\* every word of memory bank m is zero
AllZero(m) == \A i \in DOMAIN m : m[i] = WZero

\* what a C09 with both fields zero is to leave cleared
ProgramCleared(s) ==
    /\ ~s.system_config.clocks_required
    /\ s.amon_test_count = 0
    /\ \A i \in 1..NumAmonTests : AmonTestAt(s, i) = AmonTestDefault
    /\ \A f \in 1..2 :
          s.fpgas[f].present =>
             /\ AllZero(s.fpgas[f].pattern_memory_a)
             /\ AllZero(s.fpgas[f].pattern_memory_b)
             /\ AllZero(s.fpgas[f].tristate_memory_a)
             /\ AllZero(s.fpgas[f].tristate_memory_b)

\* the same fields, unchanged from s to t
ProgramKept(s, t) ==
    /\ t.system_config.clocks_required = s.system_config.clocks_required
    /\ t.amon_test_count = s.amon_test_count
    /\ t.amon_tests = s.amon_tests
    /\ t.fpgas = s.fpgas

\* C19: after a C09 whose two decimal fields are both zero, clocks_required
\* is false, amon_test_count is 0, every AmonTest is the default and every
\* memory bank (pattern A and B, tristate A and B) of every present FPGA
\* holds only zeros; a C09 with a non-zero ID clears none of these.
C19_ZeroProgramIdClears ==
    Stepped =>
      ((op = "SetProgramId" /\ result.kind = "Ok")
         => IF ProgramIdFields(buf) = <<0, 0>>
            THEN ProgramCleared(sim)
            ELSE ProgramKept(pre, sim))

\* what SequenceOn makes of a PSU whose final step voltage is v
SequencedOn(psu, v) ==
    IF v > 0
    THEN psu.enabled /\ psu.voltage_setpoint = F(1, v, 1)
    ELSE ~psu.enabled /\ psu.voltage_setpoint = FZero

\* C20: C03 (SequenceOn), from any state, resets all 100 AMON tests to the
\* default, sets auto_reset_counter to 0 and ignore_clock_fails to false,
\* sets for each PSU enabled = true and voltage_setpoint = voltage_set_s4
\* when voltage_set_s4 > 0 and else enabled = false and voltage_setpoint = 0,
\* sets sequence_on and responds #ON#.
C20_SequenceOn ==
    Stepped =>
      ((Addressed(pre, buf) /\ OpId(buf) = 3)
         => /\ result.kind = "Ok"
            /\ result.response = <<StrON>>
            /\ \A i \in 1..NumAmonTests : AmonTestAt(sim, i) = AmonTestDefault
            /\ sim.system_config.auto_reset_counter = 0
            /\ ~sim.system_config.ignore_clock_fails
            /\ \A p \in 1..NumPsus :
                  /\ SequencedOn(sim.psus[p], pre.psus[p].voltage_set_s4)
                  /\ sim.psus[p].voltage_set_s4 = pre.psus[p].voltage_set_s4
            /\ sim.sequence_on)

\* SequenceOn during a driver session enabled a PSU that has a final step
\* voltage and disabled one that has none
C20_Witness ==
    /\ buf = SequenceOnFrame
    /\ result.response = <<StrON>>
    /\ sim.is_driver_data_loading
    /\ \E p \in 1..NumPsus :
          sim.psus[p].voltage_set_s4 > 0 /\ sim.psus[p].enabled
          /\ sim.psus[p].voltage_setpoint # FZero
    /\ \E p \in 1..NumPsus : sim.psus[p].voltage_set_s4 = 0 /\ ~sim.psus[p].enabled

\* the decimal digits of a natural number, and the 5 digit zero-padded text
\* of a number below 100000
RECURSIVE DecText(_)
DecText(n) == IF n < 10 THEN <<48 + n>> ELSE DecText(n \div 10) \o <<48 + (n % 10)>>

FiveDigits(n) ==
    <<48 + ((n \div 10000) % 10), 48 + ((n \div 1000) % 10), 48 + ((n \div 100) % 10),
      48 + ((n \div 10) % 10), 48 + (n % 10)>>

\* C22: program-ID round trip.  An accepted C09 with the decimal fields h
\* (offsets 9..14) and l (offsets 14..19) stores them; C22 answers # h , l #
\* with both zero-padded to 5 digits and C23 answers #<h+l>#; only a C09 or
\* a C19 changes the stored ID.
C22_ProgramIdRoundTrip ==
    Stepped =>
      (/\ (Addressed(pre, buf) /\ OpId(buf) = 9 /\ result.kind = "Ok")
          => <<sim.prog_id_hint, sim.prog_id_lint>> = ProgramIdFields(buf)
       /\ (Addressed(pre, buf) /\ OpId(buf) = 22)
          => result.response =
                 <<<<35>> \o FiveDigits(pre.prog_id_hint) \o <<44>>
                   \o FiveDigits(pre.prog_id_lint) \o <<35>>>>
       /\ (Addressed(pre, buf) /\ OpId(buf) = 23)
          => result.response =
                 <<<<35>> \o DecText(pre.prog_id_hint + pre.prog_id_lint) \o <<35>>>>
       /\ ~(Addressed(pre, buf) /\ OpId(buf) \in {9, 19})
          => /\ sim.prog_id_hint = pre.prog_id_hint
             /\ sim.prog_id_lint = pre.prog_id_lint)

\* C22 read back the ID 12345, 54321 stored before
C22_Witness ==
    /\ buf = GetProgramIdFrame
    /\ sim.prog_id_hint = 12345
    /\ sim.prog_id_lint = 54321
    /\ result.response = <<<<35, 49, 50, 51, 52, 53, 44, 53, 52, 51, 50, 49, 35>>>>

\* the parameter of a control frame: the 5 characters at offsets 14..19
\* as a decimal number, -1 when the content is shorter or they are no digits
ControlParameter(b) ==
    IF Len(Between(b)) < 19 THEN -1 ELSE DecValue(SubSeq(Between(b), 15, 19))

\* what SelfTestMem answers and leaves
SelfTested(s, res) ==
    /\ res.kind = "Ok"
    /\ res.response = <<StrOK>>
    /\ s.prog_id_hint = 0
    /\ s.prog_id_lint = 0
    /\ \A f \in 1..2 :
          /\ s.fpgas[f].mem_a_test_ok
          /\ s.fpgas[f].mem_b_test_ok
          /\ s.fpgas[f].ctrl_a_test_ok
          /\ s.fpgas[f].ctrl_b_test_ok

\* C23 as stated: any control frame addressed to this simulator with
\* operation ID 19 zeroes the program ID, sets the four self-test flags of
\* both FPGAs and answers #OK#.
C23_AnySelfTestMem ==
    Stepped =>
      ((Addressed(pre, buf) /\ OpId(buf) = 19) => SelfTested(sim, result))

\* control 19 with the parameter 1: <C1F1900000000000001>
SelfTestOneFrame ==
    <<60, 67, 49, 70, 49, 57, 48, 48, 48, 48, 48, 48, 48, 48, 48, 48, 48, 48, 48, 49, 62>>

\* C23: a control frame addressed to this simulator with operation ID 19, a
\* content of 19 bytes or more and a decimal parameter at offsets 14..19
\* zeroes prog_id_hint and prog_id_lint, sets all four self-test-OK flags of
\* both FPGAs to true and answers #OK#, whatever the value of the parameter:
\* the frame with the parameter 1, called in the same state, returns the
\* same and leaves the same simulator.
C23_SelfTestMem ==
    Stepped =>
      ((Addressed(pre, buf) /\ OpId(buf) = 19 /\ ControlParameter(buf) >= 0)
         => /\ SelfTested(sim, result)
            /\ \A r \in {process_command(pre, SelfTestOneFrame)} :
                  /\ ControlParameter(SelfTestOneFrame) = 1
                  /\ r.res = result
                  /\ r.sim = sim)

\* SelfTestMem passed the memory test that the set-up had failed
C23_Witness ==
    /\ buf = SelfTestMemFrame
    /\ result.response = <<StrOK>>
    /\ sim.fpgas[1].present
    /\ sim.fpgas[1].mem_a_test_ok
    /\ sim.prog_id_hint = 0

\* voltage_set_s<step> of a PSU
StepVoltage(psu, step) ==
    CASE step = 1 -> psu.voltage_set_s1
      [] step = 2 -> psu.voltage_set_s2
      [] step = 3 -> psu.voltage_set_s3
      [] step = 4 -> psu.voltage_set_s4

\* the setpoint SequenceOnCal is to give PSU p (1-based) for a step:
\* PSUs 1-4 their own value, PSUs 5 and 6 that of PSU 5, s3 for step 4
CalSetpoint(s, p, step) ==
    IF p <= 4 THEN StepVoltage(s.psus[p], step)
    ELSE StepVoltage(s.psus[5], IF step = 4 THEN 3 ELSE step)

\* C21: C05 (SequenceOnCal) with a step in 1..4 enables all six PSUs, sets
\* sequence_on and auto_reset_counter = 0, gives PSUs 1-4 their own
\* voltage_set_s<step> as setpoint and PSUs 5 and 6 both PSU 5's
\* voltage_set_s<step>, for step 4 PSU 5's voltage_set_s3, and answers #ON#.
C21_SequenceOnCal ==
    Stepped =>
      ((Addressed(pre, buf) /\ OpId(buf) = 5 /\ ControlParameter(buf) \in 1..4)
         => /\ result.kind = "Ok"
            /\ result.response = <<StrON>>
            /\ sim.sequence_on
            /\ sim.system_config.auto_reset_counter = 0
            /\ \A p \in 1..NumPsus :
                  /\ sim.psus[p].enabled
                  /\ sim.psus[p].voltage_setpoint =
                         F(1, CalSetpoint(pre, p, ControlParameter(buf)), 1))

\* step 4 gave PSU 6, whose own step values differ, the third step value of
\* PSU 5
C21_Witness ==
    /\ buf = CalStep4Frame
    /\ result.response = <<StrON>>
    /\ sim.psus[5].voltage_set_s3 # sim.psus[5].voltage_set_s4
    /\ sim.psus[5].voltage_set_s3 > 0
    /\ sim.psus[6].voltage_setpoint = F(1, sim.psus[5].voltage_set_s3, 1)
    /\ sim.psus[5].voltage_setpoint = F(1, sim.psus[5].voltage_set_s3, 1)

\* the driver letters whose first field is the 1-based ordinal of a record
OrdinalLetters == {86, 81, 77, 83, 76, 79, 87, 85, 89}

\* the number of records the ordinal of a letter addresses
OrdinalLimit(letter) ==
    CASE letter \in {86, 81, 77} -> 6
      [] letter = 83 -> 2
      [] letter = 76 -> 8
      [] letter = 79 -> 16
      [] letter \in {87, 85, 89} -> 100

\* the content length of a command of a letter
OrdinalLength(letter) ==
    CASE letter = 86 -> 19
      [] letter = 81 -> 21
      [] letter = 77 -> 20
      [] letter = 83 -> 19
      [] letter = 76 -> 11
      [] letter = 79 -> 13
      [] letter = 87 -> 21
      [] letter = 85 -> 19
      [] letter = 89 -> 17

\* the array the ordinal of a letter addresses
AddressedArray(s, letter) ==
    CASE letter \in {86, 81, 77} -> s.psus
      [] letter = 83 -> s.sine_waves
      [] letter = 76 -> s.pattern_loops
      [] letter = 79 -> s.output_routing
      [] letter \in {87, 85, 89} -> s.amon_tests

\* a text of hexadecimal digits only
HexText(str) ==
    \A i \in 1..Len(str) : str[i] \in (48..57) \cup (65..70) \cup (97..102)

\* the call of buffer b in state s is a driver data command of full length,
\* its data all hexadecimal digits, whose first field is an ordinal
OrdinalCommand(s, b) ==
    /\ ~Unframed(b)
    /\ Between(b) # << >>
    /\ s.is_driver_data_loading
    /\ Between(b)[1] \in OrdinalLetters
    /\ Len(Between(b)) >= OrdinalLength(Between(b)[1])
    /\ Between(b)[2] < 128
    /\ Between(b)[3] < 128
    /\ HexText(SubSeq(Between(b), 4, Len(Between(b))))

\* the ordinal of such a command
Ordinal(b) == HexValue(SubSeq(Between(b), 4, 5))

\* C24: a V, Q, M, S, L, O, W, U or Y command whose ordinal is 0 or above the
\* size of the array it addresses returns Ok, changes no record of that
\* array and still adds its full contribution to the driver checksum.
C24_OrdinalOutOfRange ==
    Stepped =>
      ((OrdinalCommand(pre, buf) /\ Ordinal(buf) \notin 1..OrdinalLimit(Between(buf)[1]))
         => /\ result.kind = "Ok"
            /\ AddressedArray(sim, Between(buf)[1]) = AddressedArray(pre, Between(buf)[1])
            /\ sim.driver_data_checksum =
                   wrapping_add(pre.driver_data_checksum, W(TableContribution(Between(buf)))))

\* a V command for PSU 7 was accepted after one for PSU 6; the checksum
\* holds both contributions
C24_Witness ==
    /\ buf = VAboveFrame
    /\ result.kind = "Ok"
    /\ sim.psus[6].voltage_set_s1 = 560
    /\ sim.driver_data_checksum =
           W(TableContribution(Between(DriverV6Frame)) + TableContribution(Between(VAboveFrame)))

\* the call of buffer b in state s is a B or an I command of full length,
\* its content ASCII, its cmd_type and test# hexadecimal digits
TestCommand(s, b, letter) ==
    /\ ~Unframed(b)
    /\ Between(b) # << >>
    /\ s.is_driver_data_loading
    /\ Between(b)[1] = letter
    /\ Len(Between(b)) >= (IF letter = 66 THEN 18 ELSE 21)
    /\ \A i \in 1..Len(Between(b)) : Between(b)[i] < 128
    /\ HexText(SubSeq(Between(b), 4, 6))

\* the cmd_type and the test# of such a command
CmdType(b) == HexValue(SubSeq(Between(b), 4, 4))

TestNumber(b) == HexValue(SubSeq(Between(b), 5, 6))

\* C25: a B or I command whose test# is outside 1..100, a B command whose
\* cmd_type is outside 1..4 and an I command whose cmd_type is outside 1..7
\* each return InvalidParameter.
C25_InvalidTestOrType ==
    Stepped =>
      ((\/ /\ TestCommand(pre, buf, 66)
           /\ (TestNumber(buf) \notin 1..100 \/ CmdType(buf) \notin 1..4)
        \/ /\ TestCommand(pre, buf, 73)
           /\ (TestNumber(buf) \notin 1..100 \/ CmdType(buf) \notin 1..7))
         => (result.kind = "Err" /\ result.err = <<"InvalidParameter">>))

\* an I command of type 8 for a test that holds a gain was refused
C25_Witness ==
    /\ buf = IAboveTypeFrame
    /\ result.kind = "Err"
    /\ result.err = <<"InvalidParameter">>
    /\ AmonTestAt(sim, 1).tp1_gain # FZero

\* the five fields of a test that a B command of type t sets, in the order
\* of its values s1..s5
BFields(t) ==
    CASE t = 1 -> <<"tp1_mux_ch", "tp1_peak_detect", "tp2_mux_ch", "tp2_peak_detect",
                    "test_type">>
      [] t = 2 -> <<"tp1_amon_mux_a", "tp1_samples", "tp2_amon_mux_a", "tp2_samples", "board">>
      [] t = 3 -> <<"tp1_amon_mux_b", "tp1_discharge", "tp2_amon_mux_b", "tp2_discharge", "tag">>
      [] t = 4 -> <<"tp1_common_mux", "tp1_discharge_time", "tp2_common_mux",
                    "tp2_discharge_time", "unit_type">>

\* the value s<k> of a B command
BValue(b, k) == HexValue(SubSeq(Between(b), 7 + 2 * k, 8 + 2 * k))

\* the test a B command of type t leaves of test old
BWritten(old, b, t) ==
    [f \in DOMAIN old |->
        IF \E k \in 1..5 : BFields(t)[k] = f
        THEN BValue(b, CHOOSE k \in 1..5 : BFields(t)[k] = f)
        ELSE old[f]]

\* C26: a valid B command of type t in 1..4 for test n writes s1..s5 into
\* the five fields of test n listed for t, leaves the other fields of that
\* test and all other tests unchanged, sets amon_test_count = n and adds
\* cmd_type + test# + s1..s5 to the driver checksum.
C26_BCommandFields ==
    Stepped =>
      ((/\ TestCommand(pre, buf, 66)
        /\ HexText(SubSeq(Between(buf), 9, 18))
        /\ TestNumber(buf) \in 1..100
        /\ CmdType(buf) \in 1..4)
         => /\ result.kind = "Ok"
            /\ AmonTestAt(sim, TestNumber(buf)) =
                   BWritten(AmonTestAt(pre, TestNumber(buf)), buf, CmdType(buf))
            /\ \A m \in 1..100 :
                  m # TestNumber(buf) => AmonTestAt(sim, m) = AmonTestAt(pre, m)
            /\ sim.amon_test_count = TestNumber(buf)
            /\ sim.driver_data_checksum =
                   wrapping_add(pre.driver_data_checksum,
                                W(CmdType(buf) + TestNumber(buf) + BValue(buf, 1)
                                  + BValue(buf, 2) + BValue(buf, 3) + BValue(buf, 4)
                                  + BValue(buf, 5))))

\* test 5 holds the values of a type 2 and of a type 3 command
C26_Witness ==
    /\ buf = BType3Frame
    /\ result.kind = "Ok"
    /\ sim.amon_test_count = 5
    /\ AmonTestAt(sim, 5).board = 21
    /\ AmonTestAt(sim, 5).tag = 37
    /\ AmonTestAt(sim, 5).tp1_amon_mux_a = 17
    /\ AmonTestAt(sim, 5).tp2_discharge = 36

\* the call of buffer b in state s is a driver data command of a letter, of
\* at least len characters, its data all hexadecimal digits
HexCommand(s, b, letter, len) ==
    /\ ~Unframed(b)
    /\ Between(b) # << >>
    /\ s.is_driver_data_loading
    /\ Between(b)[1] = letter
    /\ Len(Between(b)) >= len
    /\ Between(b)[2] < 128
    /\ Between(b)[3] < 128
    /\ HexText(SubSeq(Between(b), 4, Len(Between(b))))

\* the value of the characters at content offsets from..to-1 of buffer b
Field(b, from, to) == HexValue(SubSeq(Between(b), from + 1, to))

\* the driver checksum after a contribution n
Contributed(s, n) == wrapping_add(s.driver_data_checksum, W(n))

\* C27: an A command contributes s1+s2+s3+s5+s6+s7 to the driver checksum,
\* where s7 is a second parse of characters 17..19, the last two digits of
\* s5, and the parsed s4 (characters 11..13) is left out; it sets
\* power_up_delay = s5 and set_point_enabled = (s6 = 1).
C27_ACommandQuirk ==
    Stepped =>
      (HexCommand(pre, buf, 65, 19)
         => /\ result.kind = "Ok"
            /\ sim.driver_data_checksum =
                   Contributed(pre, Field(buf, 7, 11) + Field(buf, 4, 7) + Field(buf, 3, 4)
                                    + Field(buf, 15, 19) + Field(buf, 14, 15)
                                    + Field(buf, 17, 19))
            /\ sim.system_config.power_up_delay = Field(buf, 15, 19)
            /\ sim.system_config.set_point_enabled = (Field(buf, 14, 15) = 1))

\* an A command whose s4 is 255 and whose s5 ends in 78 was accepted first in
\* its session
C27_Witness ==
    /\ buf = AQuirkFrame
    /\ result.kind = "Ok"
    /\ sim.system_config.power_up_delay = 22136
    /\ ~sim.system_config.set_point_enabled
    /\ sim.driver_data_checksum = W(4660 + 2748 + 2 + 22136 + 0 + 120)

\* the complement on 32 bits of a number below 2^32, as a word
Complement32(x) == <<Half - 1 - (x \div Half), Half - 1 - (x % Half)>>

\* C28: an F command contributes the sum of the hexadecimal digit values of
\* the 15 characters at content offsets 3..18, not the sum of its parsed
\* fields; it sets clocks_restart_time = (s6 + (s7 << 8)) * 60,
\* clk32_mon_filter = NOT(s1 + (s2 << 8)) and clk64_mon_filter =
\* NOT(s3 + (s4 << 8)) on 32 bits.
C28_FCommandQuirk ==
    Stepped =>
      (HexCommand(pre, buf, 70, 18)
         => /\ result.kind = "Ok"
            /\ sim.driver_data_checksum =
                   Contributed(pre, WindowSum(Between(buf), Windows(3, 1, 15)))
            /\ sim.system_config.clocks_restart_time =
                   (Field(buf, 7, 9) + Field(buf, 5, 7) * 256) * 60
            /\ sim.system_config.clk32_mon_filter =
                   Complement32(Field(buf, 16, 18) + Field(buf, 14, 16) * 256)
            /\ sim.system_config.clk64_mon_filter =
                   Complement32(Field(buf, 12, 14) + Field(buf, 10, 12) * 256))

\* an F command whose digits sum to 97 while its fields sum to 682 was
\* accepted first in its session
C28_Witness ==
    /\ buf = FQuirkFrame
    /\ result.kind = "Ok"
    /\ sim.driver_data_checksum = W(97)
    /\ sim.system_config.clocks_restart_time = (178 + 161 * 256) * 60
    /\ sim.system_config.clk32_mon_filter = <<65535, 65535 - (96 + 95 * 256)>>

\* the divisor of the voltage limits for a vmon_mult digit, and of the
\* calibration value for a vread_gain digit
VmonDivisor(vmon_mult) == IF vmon_mult = 1 THEN 1 ELSE 10

CalDivisor(vread_gain) ==
    CASE vread_gain = 2 -> 500
      [] vread_gain = 1 -> 1000
      [] OTHER -> 10000

\* C29: a valid Q command for PSU n in 1..6 sets sequence_id and
\* sequence_delay of psus[n-1], its high and low voltage limits to high_v
\* and low_v divided by 1 when vmon_mult = 1 and by 10 otherwise, and its
\* psu_cal_val to cal_v divided by 500 / 1000 / 10000 for vread_gain 2 / 1 /
\* other; it contributes psu# + delay + seq_id + cal_v + low_v + high_v,
\* without the two multiplier digits.
C29_QCommand ==
    Stepped =>
      ((HexCommand(pre, buf, 81, 21) /\ Field(buf, 3, 5) \in 1..6)
         => /\ result.kind = "Ok"
            /\ sim.psus =
                   [pre.psus EXCEPT ![Field(buf, 3, 5)] =
                       [@ EXCEPT !.sequence_id = Field(buf, 8, 9),
                                 !.sequence_delay = Field(buf, 5, 8),
                                 !.high_voltage_limit =
                                     F(1, Field(buf, 16, 19), VmonDivisor(Field(buf, 20, 21))),
                                 !.low_voltage_limit =
                                     F(1, Field(buf, 13, 16), VmonDivisor(Field(buf, 20, 21))),
                                 !.psu_cal_val =
                                     F(1, Field(buf, 9, 13), CalDivisor(Field(buf, 19, 20)))]]
            /\ sim.driver_data_checksum =
                   Contributed(pre, Field(buf, 3, 5) + Field(buf, 5, 8) + Field(buf, 8, 9)
                                    + Field(buf, 9, 13) + Field(buf, 13, 16)
                                    + Field(buf, 16, 19)))

\* a Q command with vread_gain 2 and vmon_mult 0 set PSU 4: limits in tenths,
\* calibration 4000 / 500
C29_Witness ==
    /\ buf = QGain2Frame
    /\ result.kind = "Ok"
    /\ sim.psus[4].sequence_id = 2
    /\ sim.psus[4].sequence_delay = 5
    /\ sim.psus[4].high_voltage_limit = F(1, 30, 1)
    /\ sim.psus[4].low_voltage_limit = F(1, 10, 1)
    /\ sim.psus[4].psu_cal_val = F(1, 8, 1)
    /\ sim.driver_data_checksum = W(4 + 5 + 2 + 4000 + 100 + 300)

\* the offset of a D command: i_cal_off / 100, negated when pos_neg = 1
DOffset(b) == F(IF Field(b, 16, 17) = 1 THEN -1 ELSE 1, Field(b, 12, 16), 100)

\* the PSUs a D command leaves
DWritten(psus, b) ==
    IF Field(b, 3, 5) \in 1..6
    THEN [psus EXCEPT ![Field(b, 3, 5)] =
             [@ EXCEPT !.current_monitor_limit = F(1, Field(b, 9, 12), 100),
                       !.i_cal_val = F(1, Field(b, 5, 9), 1000),
                       !.i_cal_offset_val = DOffset(b),
                       !.pos_neg_i = Field(b, 16, 17)]]
    ELSE IF Field(b, 3, 5) \in 7..8
    THEN [psus EXCEPT ![Field(b, 3, 5) - 6] =
             [@ EXCEPT !.v_cal_offset_val = DOffset(b),
                       !.pos_neg_v = Field(b, 16, 17)]]
    ELSE psus

\* C30: a D command with psu# in 1..6 updates only the current fields
\* (current_monitor_limit, i_cal_val, i_cal_offset_val negated when
\* pos_neg = 1, pos_neg_i) of psus[psu#-1]; with psu# in 7..8 only
\* v_cal_offset_val (negated when pos_neg = 1) and pos_neg_v of
\* psus[psu#-7]; with any other psu# no PSU changes.  In all three cases the
\* contribution is the sum of all five parsed fields.
C30_DCommand ==
    Stepped =>
      (HexCommand(pre, buf, 68, 17)
         => /\ result.kind = "Ok"
            /\ sim.psus = DWritten(pre.psus, buf)
            /\ sim.driver_data_checksum =
                   Contributed(pre, Field(buf, 3, 5) + Field(buf, 5, 9) + Field(buf, 9, 12)
                                    + Field(buf, 12, 16) + Field(buf, 16, 17)))

\* PSU 1 holds the current fields of a D command for psu# 1 and the negated
\* voltage offset of one for psu# 7
C30_Witness ==
    /\ buf = DVoltage1Frame
    /\ result.kind = "Ok"
    /\ sim.psus[1].v_cal_offset_val = F(-1, 1, 2)
    /\ sim.psus[1].pos_neg_v = 1
    /\ sim.psus[1].i_cal_val = F(1, 1, 1)
    /\ sim.psus[1].i_cal_offset_val = F(-1, 1, 2)

\* the 32-bit value b0 | b1<<8 | b2<<16 | b3<<24, as a word
Packed(b0, b1, b2, b3) == <<b2 + 256 * b3, b0 + 256 * b1>>

\* the field s<k> of an N, G, H or K command of buffer b, k in 1..8: s8 is
\* the first field, of w characters each from offset 3
PairField(b, w, k) == Field(b, 3 + w * (8 - k), 3 + w * (9 - k))

\* the low and the high value of the pair
PairLow(b, w) ==
    Packed(PairField(b, w, 1), PairField(b, w, 2), PairField(b, w, 3), PairField(b, w, 4))

PairHigh(b, w) ==
    Packed(PairField(b, w, 5), PairField(b, w, 6), PairField(b, w, 7), PairField(b, w, 8))

\* the driver checksum and the log of a driver command of buffer b that
\* contributes n
PairAccounted(s, b, w) ==
    [s EXCEPT !.driver_data_checksum =
                  Contributed(s, SumSeq([k \in 1..8 |-> PairField(b, w, k)])),
              !.log_buffer = <<ChecksumEntry(s, b)>>]

\* C31: N, G and H (eight 2-digit fields s8..s1 at offsets 3..19) and K
\* (eight 1-digit fields at offsets 3..11) store low = s1 | s2<<8 | s3<<16 |
\* s4<<24 and high = s5 | s6<<8 | s7<<16 | s8<<24 in repeat_count_1/2 (N),
\* frc frequency_1_4/5_8 (G), period_1_4/5_8 (H), source_1_4/5_8 (K); no
\* other field changes and the contribution is the sum of the eight fields.
C31_PackedPairs ==
    Stepped =>
      (/\ HexCommand(pre, buf, 78, 19)
          => /\ result.kind = "Ok"
             /\ sim = [PairAccounted(pre, buf, 2) EXCEPT
                           !.repeat_count_1 = PairLow(buf, 2),
                           !.repeat_count_2 = PairHigh(buf, 2)]
       /\ HexCommand(pre, buf, 71, 19)
          => /\ result.kind = "Ok"
             /\ sim = [PairAccounted(pre, buf, 2) EXCEPT
                           !.frc_config.frequency_1_4 = PairLow(buf, 2),
                           !.frc_config.frequency_5_8 = PairHigh(buf, 2)]
       /\ HexCommand(pre, buf, 72, 19)
          => /\ result.kind = "Ok"
             /\ sim = [PairAccounted(pre, buf, 2) EXCEPT
                           !.frc_config.period_1_4 = PairLow(buf, 2),
                           !.frc_config.period_5_8 = PairHigh(buf, 2)]
       /\ HexCommand(pre, buf, 75, 11)
          => /\ result.kind = "Ok"
             /\ sim = [PairAccounted(pre, buf, 1) EXCEPT
                           !.frc_config.source_1_4 = PairLow(buf, 1),
                           !.frc_config.source_5_8 = PairHigh(buf, 1)])

\* an N command with fields A1 B2 C3 D4 E5 F6 07 18 stored 0xE5F60718 and
\* 0xA1B2C3D4 after a K command stored its digits
C31_Witness ==
    /\ buf = NHighFrame
    /\ result.kind = "Ok"
    /\ sim.repeat_count_1 = <<58870, 1816>>
    /\ sim.repeat_count_2 = <<41394, 50132>>
    /\ sim.frc_config.source_1_4 = <<2826, 2312>>
    /\ sim.frc_config.source_5_8 = <<3854, 3340>>

\* the data word at content offsets off..off+4 of a P/R content c, least
\* significant byte first
DataWord(c, off) == Packed(c[off + 1], c[off + 2], c[off + 3], c[off + 4])

\* the slots of a P/R command of content c at address addr, each
\* <<fpga, address, word>>: two word pairs when both FPGAs are present, four
\* words of the first FPGA otherwise
PatternSlots(second_fpga, c, addr) ==
    IF second_fpga
    THEN {<<1, addr, DataWord(c, 1)>>, <<2, addr, DataWord(c, 5)>>,
          <<1, addr + 1, DataWord(c, 10)>>, <<2, addr + 1, DataWord(c, 14)>>}
    ELSE {<<1, addr, DataWord(c, 1)>>, <<1, addr + 1, DataWord(c, 6)>>,
          <<1, addr + 2, DataWord(c, 11)>>, <<1, addr + 3, DataWord(c, 16)>>}

\* the complement on 32 bits of a word
ComplementWord(w) == <<Half - 1 - w[1], Half - 1 - w[2]>>

\* bank after holds bank before with the slots of FPGA f stored, complemented or
\* not, and nothing else changed
BankStored(before, after, f, slots, complemented) ==
    \A a \in DOMAIN before \cup DOMAIN after \cup {x[2] : x \in slots} :
        MemRead(after, a) =
            IF \E x \in slots : x[1] = f /\ x[2] = a
            THEN LET x == CHOOSE y \in slots : y[1] = f /\ y[2] = a
                 IN  IF complemented THEN ComplementWord(x[3]) ELSE x[3]
            ELSE MemRead(before, a)

\* the slots of the P/R command of buffer b in state s
SlotsOf(s, b) == PatternSlots(s.fpgas[2].present, Between(b), s.sram_address)

\* C32: an R command stores the 32-bit complement of each data word into
\* tristate_memory_a at the sram_address slots a P command would use,
\* advances sram_address and the pattern checksum exactly as P does and
\* leaves pattern_memory_a unchanged; a P command stores the words as they
\* are into pattern_memory_a and leaves tristate_memory_a unchanged.
C32_TristateStores ==
    Stepped =>
      ((PatternDataOf(pre, buf) /\ result.kind = "Ok")
         => /\ sim.sram_address = pre.sram_address + (IF pre.fpgas[2].present THEN 2 ELSE 4)
            /\ sim.pattern_data_checksum =
                   wrapping_add(pre.pattern_data_checksum,
                                W(TablePatternContribution(pre.fpgas[2].present, Between(buf))))
            /\ \A f \in 1..2 :
                  IF Between(buf)[1] = 82
                  THEN /\ BankStored(pre.fpgas[f].tristate_memory_a,
                                     sim.fpgas[f].tristate_memory_a, f, SlotsOf(pre, buf), TRUE)
                       /\ sim.fpgas[f].pattern_memory_a = pre.fpgas[f].pattern_memory_a
                  ELSE /\ BankStored(pre.fpgas[f].pattern_memory_a,
                                     sim.fpgas[f].pattern_memory_a, f, SlotsOf(pre, buf), FALSE)
                       /\ sim.fpgas[f].tristate_memory_a = pre.fpgas[f].tristate_memory_a)

\* an R command after a P command on one FPGA: the third word 0x5AA50FF0 is
\* stored complemented at address 7, the P words stay at addresses 1..4
C32_Witness ==
    /\ buf = TristateFrame
    /\ result.kind = "Ok"
    /\ ~sim.fpgas[2].present
    /\ sim.sram_address = 9
    /\ MemRead(sim.fpgas[1].tristate_memory_a, 7) = <<42330, 61455>>
    /\ MemRead(sim.fpgas[1].pattern_memory_a, 1) = <<1027, 513>>
    /\ MemRead(sim.fpgas[1].pattern_memory_a, 7) = WZero
    /\ MemRead(sim.fpgas[1].tristate_memory_a, 1) = WZero

\* a number in uppercase hexadecimal
RECURSIVE HexUpper(_)
HexUpper(n) ==
    LET d == n % 16
        c == IF d < 10 THEN 48 + d ELSE 65 + (d - 10)
    IN  IF n < 16 THEN <<c>> ELSE HexUpper(n \div 16) \o <<c>>

Flag(b) == IF b THEN <<49>> ELSE <<48>>

\* the fields fs separated by commas
RECURSIVE Separated(_)
Separated(fs) ==
    IF Len(fs) = 1 THEN fs[1] ELSE fs[1] \o <<44>> \o Separated(Tail(fs))

\* the 17 fields of the reference monitor text of state s
RefMonitorFields(s) ==
    <<HexUpper(s.back_panel_address + 256), HexUpper(s.rs485_address + 256),
      HexUpper(s.bib_code + 4096), Flag(s.bp_res1_present), Flag(s.bp_res2_present),
      DecText(s.prog_id_lint + 100000), DecText(s.prog_id_hint + 100000),
      Flag(s.sequence_on)>>
    \o [i \in 1..4 |-> DecText(s.timer_values[i] + 1000)]
    \o [i \in 1..4 |-> DecText(s.alarm_values[i] + 1000)]
    \o <<Flag(~s.door_open)>>

\* C33: the C17 response has exactly 17 comma-separated fields between '#'
\* and '#': back_panel_address+0x100, rs485_address+0x100 and bib_code+0x1000
\* in uppercase hex, the two backplane-resistor flags, prog_id_lint+100000
\* then prog_id_hint+100000, sequence_on as 0/1, the four timers +1000, the
\* four alarms +1000 and the door flag (1 when closed); a T command loads
\* s1..s4 as the timers and s5..s8 as the alarms that appear in it.
C33_RefMonitorString ==
    Stepped =>
      (/\ (Addressed(pre, buf) /\ OpId(buf) = 17)
          => /\ result.kind = "Ok"
             /\ result.response = <<<<35>> \o Separated(RefMonitorFields(sim)) \o <<35>>>>
             /\ Cardinality(Places(result.response[1], 44)) = 16
       /\ HexCommand(pre, buf, 84, 19)
          => /\ result.kind = "Ok"
             /\ sim.timer_values = [k \in 1..4 |-> PairField(buf, 2, k)]
             /\ sim.alarm_values = [k \in 1..4 |-> PairField(buf, 2, k + 4)])

\* #10A,11F,1ABC,1,0,100000,100000,0,1001,1005,1010,1016,1032,1064,1128,1255,1#
RefMonitorText ==
    <<35, 49, 48, 65, 44, 49, 49, 70, 44, 49, 65, 66, 67, 44, 49, 44, 48, 44,
      49, 48, 48, 48, 48, 48, 44, 49, 48, 48, 48, 48, 48, 44, 48, 44,
      49, 48, 48, 49, 44, 49, 48, 48, 53, 44, 49, 48, 49, 48, 44, 49, 48, 49, 54, 44,
      49, 48, 51, 50, 44, 49, 48, 54, 52, 44, 49, 49, 50, 56, 44, 49, 50, 53, 53, 44, 49, 35>>

\* C17 answered with the timers and alarms of the T command before it
C33_Witness ==
    /\ buf = MonitorViFrame
    /\ result.response = <<RefMonitorText>>
    /\ sim.timer_values = <<1, 5, 10, 16>>
    /\ sim.alarm_values = <<32, 64, 128, 255>>

\* the position of the k-th comma of a text
CommaAt(text, k) ==
    CHOOSE p \in Places(text, 44) : Cardinality({q \in Places(text, 44) : q < p}) = k - 1

\* the k-th comma-separated field of a text
FieldOf(text, k) ==
    SubSeq(text,
           IF k = 1 THEN 1 ELSE CommaAt(text, k - 1) + 1,
           IF k > Cardinality(Places(text, 44)) THEN Len(text) ELSE CommaAt(text, k) - 1)

\* a response without its two '#'
Body(response) == SubSeq(response, 2, Len(response) - 1)

\* an answered control operation 24 or 16 addressed to the simulator
ViRead(s, b, r) == Addressed(s, b) /\ OpId(b) \in {16, 24} /\ r.kind = "Ok"

\* the fault field of a VI monitor string: the field after the twelve
\* voltage and current fields and the reset counter
FaultField(response) == FieldOf(Body(response), 14)

\* x < y for two measured or configured values
Below(x, y) == FLess(x, y)

\* C34: in every response to control operation 24 or 16 the fault field is
\* 18 characters, each '0' or '1': for PSU p the p-th is the over-current
\* flag, the (6 + p)-th the under-voltage flag and the (12 + p)-th the
\* over-voltage flag.
C34_FaultFlags ==
    Stepped =>
      (ViRead(pre, buf, result) =>
         LET flags == FaultField(result.response[1])
         IN  /\ Len(flags) = 18
             /\ \A k \in 1..18 : flags[k] \in {48, 49}
             /\ \A p \in 1..6 :
                  /\ (flags[p] = 49) <=>
                       Below(sim.psus[p].current_monitor_limit, sim.psus[p].measured_current)
                  /\ (flags[6 + p] = 49) <=>
                       Below(sim.psus[p].measured_voltage, sim.psus[p].low_voltage_limit)
                  /\ (flags[12 + p] = 49) <=>
                       Below(sim.psus[p].high_voltage_limit, sim.psus[p].measured_voltage))

\* control 24 answered with an over-current flag for PSU 3 and an
\* under-voltage flag for PSU 2
C34_Witness ==
    /\ buf = GetViMonitorFrame
    /\ result.kind = "Ok"
    /\ FaultField(result.response[1]) =
         <<48, 48, 49, 48, 48, 48, 48, 49, 48, 48, 48, 48, 48, 48, 48, 48, 48, 48>>

\* x when it is not negative, else 0
NotNegative(x) == IF Below(x, FZero) THEN FZero ELSE x

\* the voltage synthesized for a PSU: setpoint / 409.5 * psu_cal_val + v_cal_offset_val
SynthesizedVoltage(psu) ==
    NotNegative(FAdd(FMul(FDiv(psu.voltage_setpoint, F(1, 4095, 10)), psu.psu_cal_val),
                     psu.v_cal_offset_val))

\* the current synthesized for a PSU: (0.5 + i_cal_offset_val) * i_cal_val
SynthesizedCurrent(psu) ==
    NotNegative(FMul(FAdd(F(1, 1, 2), psu.i_cal_offset_val), psu.i_cal_val))

\* the text of a measured voltage, below and above 899
VoltageText(v) ==
    IF Below(F(1, 899, 1), v)
    THEN FormatFixed(FAdd(FDiv(v, F(1, 10, 1)), F(1, 1000, 1)), 1)
    ELSE FormatFixed(FAdd(v, F(1, 100, 1)), 2)

\* the text of a measured current
CurrentText(i) == FormatFixed(FAdd(i, F(1, 100, 1)), 2)

HundredText == <<49, 48, 48, 46, 48, 48>>

\* C35: in every response to control operation 24 or 16, the two fields of
\* a disabled PSU are 100.00 and 100.00, and the two fields of an enabled
\* PSU are the voltage and the current synthesized from the setpoint and
\* the calibration the PSU has at the time of the call.
C35_RefreshedMeasurements ==
    Stepped =>
      (ViRead(pre, buf, result) =>
         \A p \in 1..6 :
            LET psu == pre.psus[p]
                body == Body(result.response[1])
            IN  /\ sim.psus[p].enabled = psu.enabled
                /\ sim.psus[p].voltage_setpoint = psu.voltage_setpoint
                /\ IF ~psu.enabled
                   THEN /\ sim.psus[p].measured_voltage = FZero
                        /\ sim.psus[p].measured_current = FZero
                        /\ FieldOf(body, 2 * p - 1) = HundredText
                        /\ FieldOf(body, 2 * p) = HundredText
                   ELSE /\ sim.psus[p].measured_voltage = SynthesizedVoltage(psu)
                        /\ sim.psus[p].measured_current = SynthesizedCurrent(psu)
                        /\ FieldOf(body, 2 * p - 1) = VoltageText(SynthesizedVoltage(psu))
                        /\ FieldOf(body, 2 * p) = CurrentText(SynthesizedCurrent(psu)))

\* control 24 after a V command for PSU 2 and control 03: PSU 2 is reported
\* with 110.00 and 100.50, the disabled PSU 1 with 100.00 and 100.00; the
\* measurements control 03 left were 0 and 0.5 for both
C35_Witness ==
    /\ buf = GetViMonitorFrame
    /\ result.kind = "Ok"
    /\ sim.psus[2].enabled
    /\ ~sim.psus[1].enabled
    /\ FieldOf(Body(result.response[1]), 1) = HundredText
    /\ FieldOf(Body(result.response[1]), 2) = HundredText
    /\ FieldOf(Body(result.response[1]), 3) = <<49, 49, 48, 46, 48, 48>>
    /\ FieldOf(Body(result.response[1]), 4) = <<49, 48, 48, 46, 53, 48>>

\* a control operation 25 addressed to the simulator
AmonRead(s, b) == Addressed(s, b) /\ OpId(b) = 25

\* C37: amon_test_count is at most 100 after every call, and every control
\* operation 25 returns a response.
C37_TestCountBounded ==
    Stepped =>
      (/\ sim.amon_test_count <= 100
       /\ AmonRead(pre, buf) => result.kind = "Ok" /\ result.response # << >>)

\* the shape of the AMON monitor string for n tests: '#', the amon_bp field,
\* 4 * n further fields, '#', and no comma before the final '#'
AmonShape(s, response, n) ==
    /\ Len(response) >= 3
    /\ response[1] = 35
    /\ response[Len(response)] = 35
    /\ response[Len(response) - 1] # 44
    /\ Cardinality(Places(Body(response), 44)) = 4 * n
    /\ FieldOf(Body(response), 1) = HexUpper(s.amon_bp + 4096)
    /\ \A t \in 1..n :
         /\ FieldOf(Body(response), 4 * t - 1) = DecText(measure_amon_test_data(s, t)[2])
         /\ FieldOf(Body(response), 4 * t) = DecText(AmonTestAt(s, t).board + 10)
         /\ FieldOf(Body(response), 4 * t + 1) = DecText(AmonTestAt(s, t).tag + 100)

\* the same for 1..100 tests only
AmonShapeInRange(s, r) ==
    s.amon_test_count \in 1..100 => r.kind = "Ok" /\ AmonShape(s, r.response[1], s.amon_test_count)

\* C36: whatever amon_test_count is, control operation 25 answers '#', the
\* amon_bp + 0x1000 field in uppercase hexadecimal and 4 * amon_test_count
\* further comma-separated fields (value, status, board + 10, tag + 100 per
\* test, in test order), with no comma immediately before the final '#'.
C36_AmonMonitorShape ==
    Stepped =>
      (AmonRead(pre, buf) =>
         /\ result.kind = "Ok"
         /\ AmonShape(pre, result.response[1], pre.amon_test_count))

\* the four memory banks of FPGA f
Banks(s, f) ==
    <<s.fpgas[f].pattern_memory_a, s.fpgas[f].pattern_memory_b,
      s.fpgas[f].tristate_memory_a, s.fpgas[f].tristate_memory_b>>

\* what the data commands load: the two checksums, the address and the banks
Loaded(s) ==
    <<s.pattern_data_checksum, s.driver_data_checksum, s.sram_address, Banks(s, 1), Banks(s, 2)>>

\* C38: a P, R or driver-letter command of a session that returns TooShort
\* or InvalidParameter leaves pattern_data_checksum, driver_data_checksum,
\* sram_address and the memory banks of both FPGAs as they were; a data
\* command that changes a checksum returns Ok.
C38_FailedDataCommand ==
    Stepped =>
      (DataLetterCall(pre, buf) =>
         /\ (result.kind = "Err" /\ result.err \in {<<"TooShort">>, <<"InvalidParameter">>})
              => Loaded(sim) = Loaded(pre)
         /\ (sim.pattern_data_checksum # pre.pattern_data_checksum
               \/ sim.driver_data_checksum # pre.driver_data_checksum)
              => result.kind = "Ok")

\* a P command that is too short, after a P command that was stored
C38_Witness ==
    /\ buf = ShortPatternFrame
    /\ result.kind = "Err"
    /\ result.err = <<"TooShort">>
    /\ sim.is_pattern_data_loading
    /\ sim.pattern_data_checksum # WZero
    /\ sim.sram_address > 1

\* a session is active
InSession(s) == s.is_pattern_data_loading \/ s.is_driver_data_loading

\* the simulator with both sessions closed
OutOfSession(s) ==
    [s EXCEPT !.is_pattern_data_loading = FALSE, !.is_driver_data_loading = FALSE]

\* the session state: the two flags, the two checksums and the address
SessionState(s) ==
    <<s.is_pattern_data_loading, s.is_driver_data_loading,
      s.pattern_data_checksum, s.driver_data_checksum, s.sram_address>>

\* a control frame addressed to the simulator whose operation is not 50
OtherControl(s, b) == Addressed(s, b) /\ OpId(b) # 50

\* C39: during a session a control frame addressed to the simulator with an
\* operation other than 50 returns what it returns outside a session, and
\* leaves the two session flags, the two checksums and sram_address as they
\* were.
C39_ControlDuringSession ==
    Stepped =>
      ((InSession(pre) /\ OtherControl(pre, buf)) =>
         LET usual == process_command(OutOfSession(pre), buf)
         IN  /\ SessionState(sim) = SessionState(pre)
             /\ result = usual.res
             /\ op = usual.op
             /\ OutOfSession(sim) = usual.sim)

\* control 03 during a driver session that has loaded data: it answers
\* #ON# and the session goes on with its checksum
C39_Witness ==
    /\ buf = SequenceOnFrame
    /\ result.kind = "Ok"
    /\ result.response = <<StrON>>
    /\ sim.is_driver_data_loading
    /\ sim.driver_data_checksum # WZero

\* pairs of bytes for content offsets 1..3: "2A", two bytes that are no
\* UTF-8, and the two bytes of U+00E9
AddressBytes == {<<50, 65>>, <<255, 255>>, <<195, 169>>}

\* the address of another device: 0x2A, as in tests::ignore_command_for_other_address
ForeignAddress == 42

\* the frame of content c with the bytes at content offsets 1..3 replaced
Readdressed(c, xy) == <<60, c[1]>> \o xy \o SubSeq(c, 4, Len(c)) \o <<62>>

\* the frames of content c with other bytes at content offsets 1..3
Variants(c) == {Readdressed(c, xy) : xy \in AddressBytes}

\* simulator s with another rs485_address
AtAddress(s, a) == [s EXCEPT !.rs485_address = a]

\* a data command of the matching session with bytes at content offsets 1..3
LongDataCall(s, b) == DataLetterCall(s, b) /\ Len(Between(b)) >= 3

\* the call r did to the simulator at address a what the step did
SameOutcome(r, a) == r.res = result /\ r.sim = AtAddress(sim, a)

\* the call r was refused for its content and did nothing
RefusedAsText(r, s) ==
    /\ r.res.kind = "Err"
    /\ r.res.err = <<"InvalidParameter">>
    /\ r.sim = [s EXCEPT !.log_buffer = << >>]

\* the low half of the first word that a P or R command of content c stores
FirstLowHalf(c) == IF c[1] = 80 THEN c[2] + 256 * c[3] ELSE 65535 - (c[2] + 256 * c[3])

\* the bank a P or R command of content c stores in
StoredBank(s, c) ==
    IF c[1] = 80 THEN s.fpgas[1].pattern_memory_a ELSE s.fpgas[1].tristate_memory_a

\* C40 as stated: during the matching session a P, R or driver-letter
\* command has the same result and the same effect whatever the two bytes at
\* content offsets 1..3 and whatever rs485_address.
C40_AnyAddressBytes ==
    Stepped =>
      (LongDataCall(pre, buf) =>
         \A b \in Variants(Between(buf)) :
            SameOutcome(process_command(AtAddress(pre, ForeignAddress), b), ForeignAddress))

\* C40, amended: during the matching session a data command has the same
\* result and the same effect whatever rs485_address is.  A driver-letter
\* command has them whatever the two bytes at content offsets 1..3 are as
\* long as the content is valid UTF-8 with them; when they make it invalid
\* UTF-8 the command returns InvalidParameter and changes nothing.  In a P
\* or R command the two bytes are the low half of the first word: they are
\* stored, not compared with an address.
C40_NotAddressFiltered ==
    Stepped =>
      (LongDataCall(pre, buf) =>
         LET c == Between(buf)
         IN  /\ SameOutcome(process_command(AtAddress(pre, ForeignAddress), buf), ForeignAddress)
             /\ c[1] \notin {80, 82} =>
                  \A b \in Variants(c) :
                     LET r == process_command(AtAddress(pre, ForeignAddress), b)
                     IN  IF ~from_utf8_ok(Between(b))
                         THEN RefusedAsText(r, AtAddress(pre, ForeignAddress))
                         ELSE from_utf8_ok(c) => SameOutcome(r, ForeignAddress)
             /\ (c[1] \in {80, 82} /\ result.kind = "Ok") =>
                  MemRead(StoredBank(sim, c), pre.sram_address)[2] = FirstLowHalf(c))

\* an H command with the address characters 2A, served by the simulator at
\* address 0x1F during a driver session
C40_Witness ==
    /\ buf = DriverHFrame
    /\ sim.rs485_address = 31
    /\ result.kind = "Ok"
    /\ sim.is_driver_data_loading
    /\ sim.driver_data_checksum # WZero
=============================================================================
